---- MODULE Spec2Model ----
\* Request dispatch of expresskit: the base middleware, the wrapped middleware
\* chain of one route (wrapMiddleware), the route handler (wrapRouteHandler),
\* the error handlers installed by setupRoutes and the response 'finish'
\* listeners, run on the single-threaded event loop of the host: one
\* synchronous call stack, promise continuations once it is empty, timers and
\* events once no continuation is pending.
EXTENDS Integers, Sequences, FiniteSets, TLC

\* ---------------------------------------------------------------- bounds
NumUserMw == 1          \* user middleware of the route (beforeAuth, afterAuth)
MaxRepeatedNext == 1    \* calls of a given next after its first, per request
MaxSuspend == 1         \* awaits and timers of the bodies, per request

\* The route's stack: routeInfoMiddleware, the user middleware, the handler.
NumStages == NumUserMw + 1
RouteInfoStage == 1
Stages == 1..NumStages
UserStages == 2..NumStages
HandlerFrame == 0

\* ---------------------------------------------------------------- errors
NoErr == [by |-> -1, how |-> "none", kind |-> "none"]
Err(by, how, kind) == [by |-> by, how |-> how, kind |-> kind]
ErrKinds == {"validation", "other"}

VARIABLES
    phase,       \* "new" before the request reaches the base middleware
    ctxs,        \* every context created for the request, by id
    req,         \* req.ctx and req.originalContext (0: not set)
    res,         \* res.statusCode, res.headersSent, 'finish' emitted
    listeners,   \* res.on('finish') listeners registered
    stages,      \* one wrapMiddleware invocation per stage of the route
    handler,     \* the wrapRouteHandler invocation
    stack,       \* synchronous call stack of middleware / handler bodies
    routeIdx,    \* next layer of the route's stack
    appIdx,      \* error-handling layers of the app already passed
    finalQueue,  \* setImmediate(done) of the app router
    immediates,  \* setImmediate(() => req.originalContext.end()) pending
    telemetry,   \* what the handlers logged and emitted
    setup,       \* setupRoutes: one route being registered, then dispatched
    pair,        \* two requests in flight on the same app
    api,         \* one call of a handler built by withApi
    failure,     \* one error on its way through the app's error handlers
    contract,    \* one call of a handler with a route contract
    csrf,        \* one request at the CSRF stage of a route
    visit,       \* one request over the registered entries, to its finish
    parse        \* one request through the parsers of the app

vars == <<phase, ctxs, req, res, listeners, stages, handler, stack, routeIdx,
          appIdx, finalQueue, immediates, telemetry, setup, pair, api,
          failure, contract, csrf, visit, parse>>

Cur ==
    [phase |-> phase, ctxs |-> ctxs, req |-> req, res |-> res,
     listeners |-> listeners, stages |-> stages, handler |-> handler,
     stack |-> stack, routeIdx |-> routeIdx, appIdx |-> appIdx,
     finalQueue |-> finalQueue, immediates |-> immediates,
     telemetry |-> telemetry]

Becomes(s) ==
    /\ phase' = s.phase
    /\ ctxs' = s.ctxs
    /\ req' = s.req
    /\ res' = s.res
    /\ listeners' = s.listeners
    /\ stages' = s.stages
    /\ handler' = s.handler
    /\ stack' = s.stack
    /\ routeIdx' = s.routeIdx
    /\ appIdx' = s.appIdx
    /\ finalQueue' = s.finalQueue
    /\ immediates' = s.immediates
    /\ telemetry' = s.telemetry
    /\ UNCHANGED <<setup, pair, api, failure, contract, csrf,
                   visit, parse>>

IdleStage ==
    [pc |-> "idle", reqCtx |-> 0, ctx |-> 0, ended |-> FALSE,
     result |-> "pending", error |-> NoErr, nextCalls |-> 0,
     handoffs |-> << >>, body |-> "none", suspends |-> 0, ctxAfter |-> 0]

IdleHandler ==
    [pc |-> "idle", ctx |-> 0, result |-> "pending", error |-> NoErr,
     nextCalls |-> 0, body |-> "none", suspends |-> 0, endedCtx |-> 0]

\* A request that has not reached the app yet.
NewRequest(chain) ==
    /\ phase = "new"
    /\ ctxs = << >>
    /\ req = [ctx |-> 0, originalContext |-> 0]
    /\ res = [statusCode |-> 0, headersSent |-> FALSE, finished |-> FALSE]
    /\ listeners = [base |-> FALSE, route |-> 0]
    /\ stages = [i \in 1..(chain + 1) |-> IdleStage]
    /\ handler = IdleHandler
    /\ stack = << >>
    /\ routeIdx = 1
    /\ appIdx = 0
    /\ finalQueue = << >>
    /\ immediates = 0
    /\ telemetry = [logged |-> {}, classified |-> {}, finishLogs |-> 0,
                    stats |-> 0]

\* No route being registered, no second request, no withApi call.
NoSetup == [pc |-> "none"]
NoPair == [pc |-> "none"]
NoApi == [pc |-> "none"]
\* No error under way, no contract call, no request at the CSRF stage.
NoFailure == [pc |-> "none"]
NoContract == [pc |-> "none"]
NoCsrf == [pc |-> "none"]
\* No request on its way over the entries, none in the parsers.
NoVisit == [pc |-> "none"]
NoParse == [pc |-> "none"]
Aside ==
    /\ visit = NoVisit
    /\ parse = NoParse
Elsewhere ==
    /\ failure = NoFailure
    /\ contract = NoContract
    /\ csrf = NoCsrf
    /\ Aside

Init ==
    /\ NewRequest(NumUserMw)
    /\ Elsewhere
    /\ setup = NoSetup
    /\ pair = NoPair
    /\ api = NoApi

\* ------------------------------------------------------- contexts (nodekit)
\* ctx.create(name): a fresh context whose parent is the receiver.
NewId(s) == Len(s.ctxs) + 1
Create(s, parent) ==
    [s EXCEPT !.ctxs = Append(@, [parentContext |-> parent, ends |-> 0,
                                  failed |-> FALSE])]
\* ctx.end() and ctx.fail(error); ends counts the requests to end the context.
CtxEnd(s, c) == [s EXCEPT !.ctxs[c].ends = @ + 1]
CtxFail(s, c) == [s EXCEPT !.ctxs[c].ends = @ + 1, !.ctxs[c].failed = TRUE]

\* ------------------------------------------------------------- call stack
Top(s) == IF s.stack = << >> THEN -1 ELSE s.stack[Len(s.stack)]
Push(s, f) == [s EXCEPT !.stack = Append(@, f)]
Pop(s) == [s EXCEPT !.stack = SubSeq(@, 1, Len(@) - 1)]

\* ----------------------------------------------------------------- response
\* res.status(code).send(body): the first writer commits the response.
Send(s, code) ==
    [s EXCEPT !.res.statusCode = code, !.res.headersSent = TRUE]

\* ------------------------------------------------- error handlers of the app
\* finalRequestHandler: logs, then status (error.statusCode || 500). With the
\* headers already sent res.status().send() throws and the layer forwards the
\* error past the end of the app's stack.
FinalRequestHandler(s, err) ==
    LET s1 == [s EXCEPT !.appIdx = 2,
                        !.telemetry.logged = @ \cup {err}]
    IN  IF s1.res.headersSent
        THEN [s1 EXCEPT !.finalQueue = Append(@, err)]
        ELSE Send(s1, 500)

\* validationErrorMiddleware: answers a ValidationError itself, forwards the
\* rest with next(err).
ValidationErrorMiddleware(s, err) ==
    LET s1 == [s EXCEPT !.appIdx = 1,
                        !.telemetry.classified = @ \cup {err}]
    IN  IF err.kind = "validation"
        THEN IF s1.res.headersSent THEN s1 ELSE Send(s1, 400)
        ELSE FinalRequestHandler(s1, err)

\* next of the app router after the route: error layers are skipped without
\* an error; past the last layer the router defers to its final handler.
RouterNext(s, err) ==
    IF err = NoErr
    THEN [s EXCEPT !.appIdx = 2, !.finalQueue = Append(@, NoErr)]
    ELSE CASE s.appIdx = 0 -> ValidationErrorMiddleware(s, err)
           [] s.appIdx = 1 -> FinalRequestHandler(s, err)
           [] OTHER -> [s EXCEPT !.finalQueue = Append(@, err)]

\* ------------------------------------------------------------ wrapMiddleware
\* Entry of the wrapped middleware up to the call of fn: reqCtx = req.ctx,
\* ended = false, reqCtx.call(...) creates the child, req.ctx = ctx, fn runs.
StartStage(s, i) ==
    LET c == NewId(s)
        s1 == Create(s, s.req.ctx)
    IN  Push([s1 EXCEPT !.stages[i].pc = "awaiting",
                        !.stages[i].reqCtx = s.req.ctx,
                        !.stages[i].ctx = c,
                        !.stages[i].body = "active",
                        !.req.ctx = c], i)

\* ---------------------------------------------------------- wrapRouteHandler
\* Entry of the wrapped handler up to the call of fn.
StartHandler(s) ==
    LET c == NewId(s)
        s1 == Create(s, s.req.originalContext)
    IN  Push([s1 EXCEPT !.handler.pc = "awaiting",
                        !.handler.ctx = c,
                        !.handler.body = "active",
                        !.req.ctx = c], HandlerFrame)

\* next of the route: the following layer of [middleware..., handler]; with an
\* error every remaining layer is skipped and the route is left.
RouteNext(s, err) ==
    IF err # NoErr
    THEN RouterNext([s EXCEPT !.routeIdx = Len(s.stages) + 2], err)
    ELSE IF s.routeIdx <= Len(s.stages)
         THEN StartStage([s EXCEPT !.routeIdx = @ + 1], s.routeIdx)
         ELSE IF s.routeIdx = Len(s.stages) + 1
              THEN StartHandler([s EXCEPT !.routeIdx = @ + 1])
              ELSE RouterNext(s, NoErr)

\* The next handed to fn: req.ctx = reqCtx; ended = true; next(...args).
\* handoffs records each call of the real next made by the wrapper of stage
\* i: its argument, req.ctx at the call, and whether the given next or the
\* catch made it.
Handoff(s, i, err, via) ==
    [s EXCEPT !.stages[i].handoffs =
                  Append(@, [err |-> err, ctx |-> s.req.ctx, via |-> via])]

\* The given next without req.ctx = reqCtx.
GivenNextKeepsCtx(s, i, err) ==
    LET s1 == [s EXCEPT !.stages[i].ended = TRUE,
                        !.stages[i].nextCalls = @ + 1]
    IN  RouteNext(Handoff(s1, i, err, "given"), err)

GivenNext(s, i, err) ==
    LET s1 == [s EXCEPT !.req.ctx = s.stages[i].reqCtx,
                        !.stages[i].ended = TRUE,
                        !.stages[i].nextCalls = @ + 1]
    IN  RouteNext(Handoff(s1, i, err, "given"), err)

\* reqCtx.call: once the callback's promise has settled the child context is
\* ended, or failed when it rejected.
\* A call that ends the child only when the callback resolved.
CallSettledLeaksOnError(s, i) ==
    LET st == s.stages[i]
        s1 == IF st.result = "ok" THEN CtxEnd(s, st.ctx) ELSE s
    IN  [s1 EXCEPT !.stages[i].pc = "settled"]

CallSettled(s, i) ==
    LET st == s.stages[i]
        s1 == IF st.result = "ok" THEN CtxEnd(s, st.ctx)
                                  ELSE CtxFail(s, st.ctx)
    IN  [s1 EXCEPT !.stages[i].pc = "settled"]

\* A catch that goes on with next() instead of next(error).
CatchFinallyDropsError(s, i) ==
    LET st == s.stages[i]
        s1 == IF st.result = "err"
              THEN RouteNext(Handoff(s, i, NoErr, "catch"), NoErr)
              ELSE s
        s2 == IF ~st.ended
              THEN [s1 EXCEPT !.req.ctx = st.reqCtx]
              ELSE s1
    IN  [s2 EXCEPT !.stages[i].pc = "done",
                   !.stages[i].ctxAfter = s2.req.ctx]

\* catch (error) { return next(error) } finally { if (!ended) req.ctx = reqCtx }
CatchFinally(s, i) ==
    LET st == s.stages[i]
        s1 == IF st.result = "err"
              THEN RouteNext(Handoff(s, i, st.error, "catch"), st.error)
              ELSE s
        s2 == IF ~st.ended
              THEN [s1 EXCEPT !.req.ctx = st.reqCtx]
              ELSE s1
    IN  [s2 EXCEPT !.stages[i].pc = "done",
                   !.stages[i].ctxAfter = s2.req.ctx]

\* ------------------------------------------------------------ event loop
MicroPending(s) ==
    \/ \E i \in DOMAIN s.stages :
          s.stages[i].pc = "awaiting" /\ s.stages[i].result # "pending"
    \/ s.handler.pc = "awaiting" /\ s.handler.result # "pending"
    \/ s.handler.pc = "caught"

\* What the bodies of the request have done so far, against the bounds.
RECURSIVE SumOver(_, _)
SumOver(f, S) ==
    IF S = {} THEN 0
    ELSE LET x == CHOOSE y \in S : TRUE IN f[x] + SumOver(f, S \ {x})

Suspensions(s) ==
    SumOver([i \in DOMAIN s.stages |-> s.stages[i].suspends], DOMAIN s.stages)
        + s.handler.suspends
RepeatedNext(s) ==
    SumOver([i \in DOMAIN s.stages |->
                IF s.stages[i].nextCalls > 1 THEN s.stages[i].nextCalls - 1
                                             ELSE 0], DOMAIN s.stages)

\* ------------------------------------------------------------ base middleware
\* setupBaseMiddleware: the root context, the 'finish' listener that logs the
\* outcome, next(). A throw during the setup is answered with 500; the context
\* is ended there when it had been created.
BaseMiddleware(matched, fail) ==
    /\ phase = "new"
    /\ LET s0 == [Cur EXCEPT !.phase = "dispatched"]
           root == NewId(s0)
           s1 == [Create(s0, 0) EXCEPT !.req.ctx = root,
                                       !.req.originalContext = root]
       IN  CASE fail = "beforeCreate" -> Becomes(Send(s0, 500))
             [] fail = "afterCreate" -> Becomes(Send(CtxEnd(s1, root), 500))
             [] OTHER ->
                  LET s2 == [s1 EXCEPT !.listeners.base = TRUE]
                  IN  Becomes(IF matched THEN RouteNext(s2, NoErr)
                                         ELSE RouterNext(s2, NoErr))

\* ---------------------------------------------------------- routeInfoMiddleware
\* Object.assign(req.routeInfo, ...); res.on('finish', ...); next().
RouteInfoMiddleware ==
    /\ Top(Cur) = RouteInfoStage
    /\ stages[RouteInfoStage].nextCalls = 0
    /\ Becomes(GivenNext([Cur EXCEPT !.listeners.route = @ + 1],
                         RouteInfoStage, NoErr))

RouteInfoReturn ==
    /\ Top(Cur) = RouteInfoStage
    /\ stages[RouteInfoStage].nextCalls = 1
    /\ Becomes(Pop([Cur EXCEPT !.stages[RouteInfoStage].result = "ok",
                               !.stages[RouteInfoStage].body = "finished"]))

\* ---------------------------------------------------------- middleware bodies
\* What a middleware function may do while it runs: call the next it was
\* given, with or without an error; send a response; return, leaving a timer
\* behind or not; throw or reject; await.
MwCallNext(i, err) ==
    /\ Top(Cur) = i
    /\ stages[i].nextCalls > 0 => RepeatedNext(Cur) < MaxRepeatedNext
    /\ Becomes(GivenNext(Cur, i, err))

MwSend(i) ==
    /\ Top(Cur) = i
    /\ ~res.headersSent
    /\ Becomes(Send(Cur, 200))

MwReturn(i, timer) ==
    /\ Top(Cur) = i
    /\ timer => Suspensions(Cur) < MaxSuspend
    /\ Becomes(Pop([Cur EXCEPT
          !.stages[i].result = IF @ = "pending" THEN "ok" ELSE @,
          !.stages[i].body = IF timer THEN "timer" ELSE "finished",
          !.stages[i].suspends = IF timer THEN @ + 1 ELSE @]))

MwThrow(i) ==
    /\ Top(Cur) = i
    /\ stages[i].result = "pending"
    /\ Becomes(Pop([Cur EXCEPT !.stages[i].result = "err",
                               !.stages[i].error = Err(i, "thrown", "other"),
                               !.stages[i].body = "finished"]))

MwSuspend(i) ==
    /\ Top(Cur) = i
    /\ stages[i].result = "pending"
    /\ Suspensions(Cur) < MaxSuspend
    /\ Becomes(Pop([Cur EXCEPT !.stages[i].body = "suspended",
                               !.stages[i].suspends = @ + 1]))

MwResume(i) ==
    /\ stack = << >>
    /\ stages[i].body \in {"suspended", "timer"}
    /\ stages[i].body = "timer" => ~MicroPending(Cur)
    /\ Becomes(Push([Cur EXCEPT !.stages[i].body = "active"], i))

\* The wrapper resumes once fn's promise has settled: the continuation of
\* reqCtx.call, then the wrapper's catch and finally.
WrapperSettle(i) ==
    /\ stack = << >>
    /\ stages[i].pc = "awaiting"
    /\ stages[i].result # "pending"
    /\ Becomes(CatchFinally(CallSettled(Cur, i), i))

\* --------------------------------------------------------------- route handler
HandlerSend ==
    /\ Top(Cur) = HandlerFrame
    /\ ~res.headersSent
    /\ Becomes(Send(Cur, 200))

\* fn(req, res) throws before Promise.resolve is reached: the exception leaves
\* the wrapper and the route's layer passes it to next.
HandlerThrowSync ==
    /\ Top(Cur) = HandlerFrame
    /\ handler.result = "pending"
    /\ handler.suspends = 0
    /\ LET e == Err(HandlerFrame, "thrown", "other")
       IN  Becomes(RouteNext(Pop([Cur EXCEPT !.handler.pc = "escaped",
                                            !.handler.result = "err",
                                            !.handler.error = e,
                                            !.handler.body = "finished"]), e))

HandlerReturn ==
    /\ Top(Cur) = HandlerFrame
    /\ handler.result = "pending"
    /\ Becomes(Pop([Cur EXCEPT !.handler.result = "ok",
                               !.handler.body = "finished"]))

HandlerReject(kind) ==
    /\ Top(Cur) = HandlerFrame
    /\ handler.result = "pending"
    /\ Becomes(Pop([Cur EXCEPT
          !.handler.result = "err",
          !.handler.error = Err(HandlerFrame, "rejected", kind),
          !.handler.body = "finished"]))

HandlerSuspend ==
    /\ Top(Cur) = HandlerFrame
    /\ handler.result = "pending"
    /\ Suspensions(Cur) < MaxSuspend
    /\ Becomes(Pop([Cur EXCEPT !.handler.body = "suspended",
                               !.handler.suspends = @ + 1]))

HandlerResume ==
    /\ stack = << >>
    /\ handler.body = "suspended"
    /\ Becomes(Push([Cur EXCEPT !.handler.body = "active"], HandlerFrame))

\* .catch(next)
HandlerCatch ==
    /\ stack = << >>
    /\ handler.pc = "awaiting"
    /\ handler.result = "err"
    /\ Becomes(RouteNext([Cur EXCEPT !.handler.pc = "caught",
                                     !.handler.nextCalls = @ + 1],
                         handler.error))

\* .finally(() => { req.ctx.end(); req.ctx = req.originalContext; })
HandlerFinally ==
    /\ stack = << >>
    /\ \/ handler.pc = "awaiting" /\ handler.result = "ok"
       \/ handler.pc = "caught"
    /\ Becomes([CtxEnd(Cur, req.ctx) EXCEPT
          !.handler.pc = "done",
          !.handler.endedCtx = req.ctx,
          !.req.ctx = req.originalContext])

\* ------------------------------------------------------------ events, timers
\* The app router's final handler: 404 without an error, 500 with one, nothing
\* once the headers are sent.
FinalHandler ==
    /\ stack = << >>
    /\ ~MicroPending(Cur)
    /\ finalQueue # << >>
    /\ LET e == Head(finalQueue)
           s1 == [Cur EXCEPT !.finalQueue = Tail(@)]
       IN  Becomes(IF s1.res.headersSent THEN s1
                   ELSE Send(s1, IF e = NoErr THEN 404 ELSE 500))

\* 'finish': the base listener logs the outcome and tags the status; each
\* listener of routeInfoMiddleware emits the self-stats and defers the end of
\* the root context with setImmediate.
Finish ==
    /\ stack = << >>
    /\ ~MicroPending(Cur)
    /\ res.headersSent
    /\ ~res.finished
    /\ Becomes([Cur EXCEPT
          !.res.finished = TRUE,
          !.telemetry.finishLogs = IF listeners.base THEN @ + 1 ELSE @,
          !.telemetry.stats = @ + listeners.route,
          !.immediates = @ + listeners.route])

\* setImmediate(() => { req.originalContext.end(); })
EndRoot ==
    /\ stack = << >>
    /\ ~MicroPending(Cur)
    /\ immediates > 0
    /\ Becomes([CtxEnd(Cur, req.originalContext) EXCEPT !.immediates = @ - 1])

\* The user middleware of the route being served.
WrappedUser == DOMAIN stages \ {RouteInfoStage}

Next ==
    \/ \E matched \in BOOLEAN, fail \in {"none", "beforeCreate", "afterCreate"} :
          BaseMiddleware(matched, fail)
    \/ RouteInfoMiddleware
    \/ RouteInfoReturn
    \/ \E i \in WrappedUser :
          \E err \in {NoErr, Err(i, "arg", "other")} : MwCallNext(i, err)
    \/ \E i \in WrappedUser : MwSend(i)
    \/ \E i \in WrappedUser, timer \in BOOLEAN : MwReturn(i, timer)
    \/ \E i \in WrappedUser : MwThrow(i)
    \/ \E i \in WrappedUser : MwSuspend(i)
    \/ \E i \in WrappedUser : MwResume(i)
    \/ \E i \in DOMAIN stages : WrapperSettle(i)
    \/ HandlerSend
    \/ HandlerThrowSync
    \/ HandlerReturn
    \/ \E kind \in ErrKinds : HandlerReject(kind)
    \/ HandlerSuspend
    \/ HandlerResume
    \/ HandlerCatch
    \/ HandlerFinally
    \/ FinalHandler
    \/ Finish
    \/ EndRoot

Spec == Init /\ [][Next]_vars

\* ================================================================ properties
Root == req.originalContext
Started == {i \in Stages : stages[i].pc # "idle"}
HandlerStarted == handler.pc # "idle"
OnStack(f) == \E k \in 1..Len(stack) : stack[k] = f
Ends(c) == ctxs[c].ends
BodiesIdle ==
    /\ \A i \in Stages : stages[i].body \in {"none", "finished"}
    /\ handler.body \in {"none", "finished"}
\* Nothing of the request is left to run.
Quiescent ==
    /\ phase # "new"
    /\ stack = << >>
    /\ ~MicroPending(Cur)
    /\ BodiesIdle
    /\ finalQueue = << >>
    /\ immediates = 0
    /\ res.headersSent => res.finished

\* The middleware of stage i threw, or its promise rejected, before it had
\* called the next it was given.
ThrewBeforeNext(i) == stages[i].result = "err" /\ ~stages[i].ended
\* ... after it had called it.
ThrewAfterNext(i) == stages[i].result = "err" /\ stages[i].ended

\* C1: a middleware that throws or rejects before calling its next has the
\* wrapper call the real next with that error exactly once (none before the
\* wrapper has resumed), and from that call on no stage and no handler starts.
C1_ErrorForwardedOnce ==
    /\ [](\A i \in UserStages : ThrewBeforeNext(i) =>
            /\ stages[i].pc = "awaiting" => stages[i].handoffs = << >>
            /\ stages[i].pc = "done" =>
                  /\ Len(stages[i].handoffs) = 1
                  /\ stages[i].handoffs[1].err = stages[i].error)
    /\ [][\A i \in UserStages :
            (ThrewBeforeNext(i)
               /\ (stages[i].pc = "done" \/ stages'[i].pc = "done"))
            => /\ {j \in Stages : stages'[j].pc # "idle"} = Started
               /\ (handler'.pc # "idle") = HandlerStarted]_vars

C1_Witness ==
    \E i \in UserStages :
        /\ ThrewBeforeNext(i)
        /\ stages[i].pc = "done"
        /\ telemetry.logged = {stages[i].error}

\* C2: an error thrown or rejected after the middleware called next() is
\* discarded: the real next is never called with it and no error handler
\* sees it.
C2_ErrorAfterNextDiscarded ==
    \A i \in UserStages : ThrewAfterNext(i) =>
        /\ \A k \in 1..Len(stages[i].handoffs) :
              stages[i].handoffs[k].err # stages[i].error
        /\ stages[i].error \notin (telemetry.classified \cup telemetry.logged)

\* C3: of the calls a middleware makes of the next it was given only the first
\* reaches the real next, and the wrapper calls the real next at most once.
C3_AtMostOneHandoff ==
    \A i \in Stages : Len(stages[i].handoffs) <= 1

\* C4: the child context of a middleware is open as long as the middleware has
\* not called next and is still to run (also after its function returned with
\* a timer pending), and it is ended once a call of next has returned to it.
C4_OpenUntilNext ==
    \A i \in UserStages : stages[i].pc # "idle" =>
        /\ (stages[i].nextCalls = 0 /\ stages[i].body # "finished")
              => Ends(stages[i].ctx) = 0
        /\ (stages[i].nextCalls > 0 /\ (Top(Cur) = i \/ ~OnStack(i)))
              => Ends(stages[i].ctx) >= 1

\* C5: the child context of a middleware invocation is never ended twice, and
\* it has been ended once when the wrapper has finished.
C5_ChildEndedExactlyOnce ==
    \A i \in Stages : stages[i].pc # "idle" =>
        /\ Ends(stages[i].ctx) <= 1
        /\ stages[i].pc = "done" => Ends(stages[i].ctx) = 1

C5_Witness ==
    \E i \in UserStages :
        /\ stages[i].pc = "done"
        /\ stages[i].result = "err"
        /\ Ends(stages[i].ctx) = 1

\* C6: at every call of the real next, with or without an error, req.ctx is
\* the context that was current when the wrapper was entered, and so it is
\* when a middleware has finished without calling next.
C6_CtxRestoredAtHandoff ==
    \A i \in Stages :
        /\ \A k \in 1..Len(stages[i].handoffs) :
              stages[i].handoffs[k].ctx = stages[i].reqCtx
        /\ (stages[i].pc = "done" /\ stages[i].handoffs = << >>)
              => stages[i].ctxAfter = stages[i].reqCtx

\* C7: the contexts of the stages and of the handler are pairwise distinct,
\* differ from the root context and have the root context as their parent.
RequestCtxs ==
    {stages[i].ctx : i \in Started} \cup
        (IF HandlerStarted THEN {handler.ctx} ELSE {})

C7_ContextsUnderRoot ==
    /\ \A c \in RequestCtxs : c # Root /\ ctxs[c].parentContext = Root
    /\ Cardinality(RequestCtxs) =
          Cardinality(Started) + (IF HandlerStarted THEN 1 ELSE 0)

C7_Witness ==
    /\ HandlerStarted
    /\ Started = Stages
    /\ \A i \in Stages : stages[i].nextCalls = 1

\* C8: when the handler has returned or resolved, the wrapper has ended the
\* handler's own context, req.ctx is the root context and the wrapper has not
\* called next.
C8_HandlerSuccessEndsOwnCtx ==
    (handler.pc = "done" /\ handler.result = "ok") =>
        /\ handler.endedCtx = handler.ctx
        /\ Ends(handler.ctx) = 1
        /\ req.ctx = Root
        /\ handler.nextCalls = 0

\* C9: when the handler has thrown or rejected and the wrapper has nothing
\* left to run, the error went to next exactly once, the handler's context is
\* ended and req.ctx is the root context.
C9_HandlerErrorClosesCtx ==
    (handler.result = "err" /\ handler.pc \in {"done", "escaped"}) =>
        /\ handler.nextCalls + (IF handler.pc = "escaped" THEN 1 ELSE 0) = 1
        /\ Ends(handler.ctx) >= 1
        /\ req.ctx = Root

\* C10: once the response of a request that passed the base middleware has
\* finished and nothing of the request is left to run, the root context has
\* been ended.
C10_RootEndedAfterFinish ==
    (listeners.base /\ res.finished /\ Quiescent) => Ends(Root) >= 1

\* C33: when the root context of a request is ended, every context created
\* for a middleware or for the handler of that request has been ended, also
\* when a body goes on after the response was sent.
C33_ChildrenEndedBeforeRoot ==
    (Root # 0 /\ Ends(Root) >= 1) => \A c \in RequestCtxs : Ends(c) >= 1

\* C35: the context the handler wrapper has ended when the handler has
\* completed, with a result or with an error, is the context this invocation
\* of the handler created; it is not the root context and not the context of
\* a stage.
C35_WrapperEndsOwnCtx ==
    (handler.pc = "done" /\ handler.endedCtx # 0) =>
        /\ handler.endedCtx = handler.ctx
        /\ handler.endedCtx # Root
        /\ \A i \in Started : handler.endedCtx # stages[i].ctx

\* C38: what the 'finish' listeners record on the root context (the
\* completion or failure log with the http.status_code tag, the self-stats
\* event) is recorded while the root context has not been ended.
C38_RecordedBeforeRootEnd ==
    [][(telemetry'.finishLogs > telemetry.finishLogs
           \/ telemetry'.stats > telemetry.stats) => Ends(Root) = 0]_vars

\* ======================================================== route registration
\* setupRoutes for one entry of the routes object, followed by one request
\* that walks the registered stack.
requestVars == <<phase, ctxs, req, res, listeners, stages, handler, stack,
                 routeIdx, appIdx, finalQueue, immediates, telemetry>>

MaxListedMw == 1        \* entries of each configured middleware list

\* ------------------------------------------------------------- route keys
\* A string is the sequence of its characters.
Uppers == <<"A", "B", "C", "D", "E", "F", "G", "H", "I", "J", "K", "L", "M",
            "N", "O", "P", "Q", "R", "S", "T", "U", "V", "W", "X", "Y", "Z">>
Lowers == <<"a", "b", "c", "d", "e", "f", "g", "h", "i", "j", "k", "l", "m",
            "n", "o", "p", "q", "r", "s", "t", "u", "v", "w", "x", "y", "z">>
WhiteSpace == {" ", "\t"}
Undefined == <<"undefined">>

\* String.prototype.toLowerCase
ToLowerCase(str) ==
    [k \in 1..Len(str) |->
        IF \E u \in 1..Len(Uppers) : Uppers[u] = str[k]
        THEN Lowers[CHOOSE u \in 1..Len(Uppers) : Uppers[u] = str[k]]
        ELSE str[k]]

\* str.split(/\s+/): the pieces between the runs of whitespace, the empty
\* piece before a leading run and after a trailing run included.
RECURSIVE SplitFrom(_, _, _, _)
SplitFrom(str, k, piece, parts) ==
    IF k > Len(str) THEN Append(parts, piece)
    ELSE IF str[k] \in WhiteSpace
         THEN IF k > 1 /\ str[k - 1] \in WhiteSpace
              THEN SplitFrom(str, k + 1, piece, parts)
              ELSE SplitFrom(str, k + 1, << >>, Append(parts, piece))
         ELSE SplitFrom(str, k + 1, Append(piece, str[k]), parts)
Split(str) == SplitFrom(str, 1, << >>, << >>)

HTTP_METHODS ==
    << <<"g", "e", "t">>, <<"h", "e", "a", "d">>,
       <<"o", "p", "t", "i", "o", "n", "s">>, <<"p", "o", "s", "t">>,
       <<"p", "u", "t">>, <<"p", "a", "t", "c", "h">>,
       <<"d", "e", "l", "e", "t", "e">> >>
Mount == <<"m", "o", "u", "n", "t">>

\* isAllowedMethod without the lower-casing of its caller: see ParseRouteKey.
isAllowedMethod(method) ==
    \/ \E k \in 1..Len(HTTP_METHODS) : HTTP_METHODS[k] = method
    \/ method = Mount

\* A parse that compares the first token as it is written.
ParseRouteKeyAsWritten(routeKey) ==
    LET routeKeyParts == Split(routeKey)
    IN  [method |-> routeKeyParts[1],
         routePath |-> IF Len(routeKeyParts) >= 2 THEN routeKeyParts[2]
                                                  ELSE Undefined]

\* routeKeyParts = routeKey.split(/\s+/); method = routeKeyParts[0]
\* .toLowerCase(); routePath = routeKeyParts[1].
ParseRouteKey(routeKey) ==
    LET routeKeyParts == Split(routeKey)
    IN  [method |-> ToLowerCase(routeKeyParts[1]),
         routePath |-> IF Len(routeKeyParts) >= 2 THEN routeKeyParts[2]
                                                  ELSE Undefined]

\* ------------------------------------------------ route description, config
AuthPolicy == {"disabled", "optional", "redirect", "required"}

\* a || b, for values of which only undefined is falsy.
OrElse(a, b) == IF a # "undefined" THEN a ELSE b

\* The k-th entry of a configured middleware list, and the list of n entries.
Listed(kind, n) == [k \in 1..n |-> [kind |-> kind, k |-> k]]

\* A resolution that lets the global policy win over the route's.
EffectiveAuthPolicyGlobalFirst(route, config) ==
    OrElse(config.appAuthPolicy, OrElse(route.authPolicy, "disabled"))

\* authPolicy = routeAuthPolicy || ctx.config.appAuthPolicy || disabled
EffectiveAuthPolicy(route, config) ==
    OrElse(route.authPolicy, OrElse(config.appAuthPolicy, "disabled"))

\* A resolution in which the route can switch caching on but not off.
EnableCachingGlobalWins(route, config) ==
    config.expressEnableCaching \/ route.enableCaching = "true"

\* typeof routeEnableCaching === 'boolean' ? routeEnableCaching
\*                                         : Boolean(expressEnableCaching)
EnableCaching(route, config) ==
    IF route.enableCaching \in {"true", "false"}
    THEN route.enableCaching = "true"
    ELSE config.expressEnableCaching

\* authPolicy === disabled ? undefined : route.authHandler || appAuthHandler
AuthHandler(route, config, authPolicy) ==
    IF authPolicy = "disabled" THEN "undefined"
    ELSE OrElse(route.authHandler, config.appAuthHandler)

\* The stack with the two after-auth lists pushed the other way round.
RouteMiddlewareGlobalAfterAuthFirst(route, config) ==
    LET authPolicy == EffectiveAuthPolicy(route, config)
        authHandler == AuthHandler(route, config, authPolicy)
    IN  <<[kind |-> "routeInfo", k |-> 1]>>
        \o (IF ~EnableCaching(route, config)
            THEN <<[kind |-> "cache", k |-> 1]>> ELSE << >>)
        \o (IF config.expressCspEnable
            THEN <<[kind |-> "csp", k |-> 1]>> ELSE << >>)
        \o Listed("appBeforeAuth", config.appBeforeAuthMiddleware)
        \o Listed("beforeAuth", route.beforeAuth)
        \o (IF authHandler # "undefined"
            THEN <<[kind |-> authHandler, k |-> 1]>>
                 \o (IF config.appCsrfSecret
                     THEN <<[kind |-> "csrf", k |-> 1]>> ELSE << >>)
            ELSE << >>)
        \o Listed("appAfterAuth", config.appAfterAuthMiddleware)
        \o Listed("afterAuth", route.afterAuth)

\* routeMiddleware as it is assembled for one route.
RouteMiddleware(route, config) ==
    LET authPolicy == EffectiveAuthPolicy(route, config)
        authHandler == AuthHandler(route, config, authPolicy)
    IN  <<[kind |-> "routeInfo", k |-> 1]>>
        \o (IF ~EnableCaching(route, config)
            THEN <<[kind |-> "cache", k |-> 1]>> ELSE << >>)
        \o (IF config.expressCspEnable
            THEN <<[kind |-> "csp", k |-> 1]>> ELSE << >>)
        \o Listed("appBeforeAuth", config.appBeforeAuthMiddleware)
        \o Listed("beforeAuth", route.beforeAuth)
        \o (IF authHandler # "undefined"
            THEN <<[kind |-> authHandler, k |-> 1]>>
                 \o (IF config.appCsrfSecret
                     THEN <<[kind |-> "csrf", k |-> 1]>> ELSE << >>)
            ELSE << >>)
        \o Listed("afterAuth", route.afterAuth)
        \o Listed("appAfterAuth", config.appAfterAuthMiddleware)

\* ------------------------------------------------------------------ inputs
GetKey == <<"G", "E", "T", " ", "/", "a">>
MountKey == <<"M", "O", "U", "N", "T", " ", "/", "a">>

\* First tokens: the methods in several spellings, and words that are none.
FirstWords ==
    {<<"G", "E", "T">>, <<"g", "e", "t">>, <<"G", "e", "t">>,
     <<"P", "O", "S", "T">>, <<"h", "e", "a", "d">>,
     <<"O", "P", "T", "I", "O", "N", "S">>, <<"p", "U", "t">>,
     <<"P", "a", "t", "c", "h">>, <<"D", "E", "L", "E", "T", "E">>,
     <<"m", "o", "u", "n", "t">>, <<"M", "o", "u", "n", "t">>,
     <<"F", "E", "T", "C", "H">>, <<"t", "r", "a", "c", "e">>,
     <<"g", "e", "t", "s">>, <<"G", "E">>, <<"/", "a">>, << >>}
Separators == {<<" ">>, <<" ", " ">>, <<"\t">>, << >>}
SecondWords == {<<"/", "a">>, << >>}
Tails == {<< >>, <<" ">>, <<" ", "/", "b">>}
RouteKeys ==
    {lead \o first \o sep \o second \o tail :
        lead \in {<< >>, <<" ">>}, first \in FirstWords, sep \in Separators,
        second \in SecondWords, tail \in Tails}

\* The policies a route or the config is given here (redirect is registered
\* as required is).
PolicyInputs == {"undefined", "disabled", "optional", "required"}

Routes ==
    [authPolicy : PolicyInputs,
     enableCaching : {"undefined", "true", "false"},
     beforeAuth : 0..MaxListedMw,
     afterAuth : 0..MaxListedMw,
     authHandler : {"undefined", "routeAuthHandler"}]
Configs ==
    [appAuthPolicy : PolicyInputs,
     expressEnableCaching : BOOLEAN,
     expressCspEnable : BOOLEAN,
     appBeforeAuthMiddleware : 0..MaxListedMw,
     appAfterAuthMiddleware : 0..MaxListedMw,
     appAuthHandler : {"undefined", "appAuthHandler"},
     appCsrfSecret : BOOLEAN]
PlainRoute ==
    [authPolicy |-> "undefined", enableCaching |-> "undefined",
     beforeAuth |-> 0, afterAuth |-> 0, authHandler |-> "undefined"]
PlainConfig ==
    [appAuthPolicy |-> "undefined", expressEnableCaching |-> FALSE,
     expressCspEnable |-> FALSE, appBeforeAuthMiddleware |-> 0,
     appAfterAuthMiddleware |-> 0, appAuthHandler |-> "undefined",
     appCsrfSecret |-> FALSE]

NewSetup(routeKey, route, config) ==
    [pc |-> "new", routeKey |-> routeKey, route |-> route, config |-> config,
     method |-> Undefined, routePath |-> Undefined, thrownBy |-> "none",
     layers |-> << >>, ran |-> << >>, noStore |-> FALSE,
     routeInfo |-> [authPolicy |-> "undefined", enableCaching |-> "undefined"]]

InitRoutes ==
    /\ NewRequest(NumUserMw)
    /\ Elsewhere
    /\ pair = NoPair
    /\ api = NoApi
    /\ \/ \E routeKey \in RouteKeys :
             setup = NewSetup(routeKey, PlainRoute, PlainConfig)
       \/ \E routeKey \in {GetKey, MountKey}, route \in Routes,
             config \in Configs :
             setup = NewSetup(routeKey, route, config)

\* ------------------------------------------------------------- setupRoutes
\* One entry of routes: the key is parsed, an unknown method throws, the
\* stack is assembled and bound with expressApp[method] or expressApp.use.
\* What Express does with a path that is undefined is not decided here:
\* pathAccepted is its answer.
SetupRoute(pathAccepted) ==
    /\ setup.pc = "new"
    /\ LET parsed == ParseRouteKey(setup.routeKey)
           last == IF parsed.method = Mount THEN "router" ELSE "handler"
       IN  setup' =
             IF ~isAllowedMethod(parsed.method)
             THEN [setup EXCEPT !.pc = "thrown", !.thrownBy = "setupRoutes",
                                !.method = parsed.method,
                                !.routePath = parsed.routePath]
             ELSE IF parsed.routePath = Undefined /\ ~pathAccepted
             THEN [setup EXCEPT !.pc = "thrown", !.thrownBy = "express",
                                !.method = parsed.method,
                                !.routePath = parsed.routePath]
             ELSE [setup EXCEPT
                     !.pc = "registered",
                     !.method = parsed.method,
                     !.routePath = parsed.routePath,
                     !.layers = RouteMiddleware(setup.route, setup.config)
                                   \o <<[kind |-> last, k |-> 1]>>]
    /\ UNCHANGED <<requestVars, pair, api, failure, contract, csrf,
                   visit, parse>>

\* A request to the route: the next layer of its stack runs and calls next;
\* routeInfoMiddleware assigns {handlerName, authPolicy, enableCaching} and
\* cacheMiddleware sets the Surrogate-Control and Cache-Control no-store
\* headers of the response.
LayerRuns ==
    /\ setup.pc = "registered"
    /\ Len(setup.ran) < Len(setup.layers)
    /\ LET layer == setup.layers[Len(setup.ran) + 1]
       IN  setup' =
             [setup EXCEPT
                !.ran = Append(@, layer),
                !.noStore = @ \/ layer.kind = "cache",
                !.routeInfo =
                    IF layer.kind = "routeInfo"
                    THEN [authPolicy |->
                              EffectiveAuthPolicy(setup.route, setup.config),
                          enableCaching |->
                              IF EnableCaching(setup.route, setup.config)
                              THEN "true" ELSE "false"]
                    ELSE @]
    /\ UNCHANGED <<requestVars, pair, api, failure, contract, csrf,
                   visit, parse>>

NextRoutes ==
    \/ \E pathAccepted \in BOOLEAN : SetupRoute(pathAccepted)
    \/ LayerRuns

SpecRoutes == InitRoutes /\ [][NextRoutes]_vars

\* ------------------------------------------------- properties of the routes
\* The position of a kind of stage in the documented order.
Rank(kind) ==
    CASE kind = "routeInfo" -> 1
      [] kind = "cache" -> 2
      [] kind = "csp" -> 3
      [] kind = "appBeforeAuth" -> 4
      [] kind = "beforeAuth" -> 5
      [] kind \in {"routeAuthHandler", "appAuthHandler"} -> 6
      [] kind = "csrf" -> 7
      [] kind = "afterAuth" -> 8
      [] kind = "appAfterAuth" -> 9
      [] kind \in {"handler", "router"} -> 10
Ran(kind) == {k \in 1..Len(setup.ran) : setup.ran[k].kind = kind}
AllRan == setup.pc = "registered" /\ Len(setup.ran) = Len(setup.layers)
CachingOff ==
    \/ setup.route.enableCaching = "false"
    \/ setup.route.enableCaching = "undefined"
          /\ ~setup.config.expressEnableCaching
SomeAuthHandler ==
    \/ setup.route.authHandler # "undefined"
    \/ setup.config.appAuthHandler # "undefined"

\* C11: the stages of a route run in the order route-info, no-cache, CSP,
\* global before-auth, route before-auth, auth, CSRF, route after-auth,
\* global after-auth, handler; the entries of a list keep their order; and
\* once all have run each optional stage is there exactly when its condition
\* holds.
C11_StageOrder ==
    setup.pc = "registered" =>
        /\ \A a, b \in 1..Len(setup.ran) : a < b =>
              \/ Rank(setup.ran[a].kind) < Rank(setup.ran[b].kind)
              \/ /\ setup.ran[a].kind = setup.ran[b].kind
                 /\ setup.ran[a].k < setup.ran[b].k
        /\ AllRan =>
              /\ Cardinality(Ran("routeInfo")) = 1
              /\ Cardinality(Ran("cache")) = (IF CachingOff THEN 1 ELSE 0)
              /\ Cardinality(Ran("csp")) =
                    (IF setup.config.expressCspEnable THEN 1 ELSE 0)
              /\ Cardinality(Ran("appBeforeAuth")) =
                    setup.config.appBeforeAuthMiddleware
              /\ Cardinality(Ran("beforeAuth")) = setup.route.beforeAuth
              /\ Cardinality(Ran("routeAuthHandler") \cup Ran("appAuthHandler"))
                    = (IF setup.routeInfo.authPolicy # "disabled"
                          /\ SomeAuthHandler THEN 1 ELSE 0)
              /\ Cardinality(Ran("csrf")) =
                    (IF setup.routeInfo.authPolicy # "disabled"
                          /\ SomeAuthHandler /\ setup.config.appCsrfSecret
                     THEN 1 ELSE 0)
              /\ Cardinality(Ran("afterAuth")) = setup.route.afterAuth
              /\ Cardinality(Ran("appAfterAuth")) =
                    setup.config.appAfterAuthMiddleware
              /\ Cardinality(Ran("handler") \cup Ran("router")) = 1

C11_Witness ==
    /\ AllRan
    /\ \A kind \in {"cache", "csp", "appBeforeAuth", "beforeAuth", "csrf",
                    "afterAuth", "appAfterAuth", "handler"} : Ran(kind) # {}
    /\ Ran("appAuthHandler") # {}

\* The first token of a key as it is read: what precedes the first
\* whitespace character.
FirstToken(routeKey) ==
    LET n == CHOOSE m \in 0..Len(routeKey) :
                 /\ \A k \in 1..m : routeKey[k] \notin WhiteSpace
                 /\ m = Len(routeKey) \/ routeKey[m + 1] \in WhiteSpace
    IN  SubSeq(routeKey, 1, n)

\* C14: a route key whose first token, lower-cased, is none of get, head,
\* options, post, put, patch, delete, mount makes the registration throw
\* before any request is served; no other key makes setupRoutes throw, and a
\* key that is registered is registered under the lower-cased method, so the
\* spelling of the method makes no difference.
C14_UnknownMethodThrows ==
    setup.pc \notin {"none", "new"} =>
        LET token == ToLowerCase(FirstToken(setup.routeKey))
        IN  /\ ~isAllowedMethod(token) <=>
                  (setup.pc = "thrown" /\ setup.thrownBy = "setupRoutes")
            /\ setup.pc = "thrown" => setup.ran = << >>
            /\ setup.method = token

C14_Witness ==
    /\ setup.pc = "thrown"
    /\ setup.thrownBy = "setupRoutes"
    /\ FirstToken(setup.routeKey) = <<"F", "E", "T", "C", "H">>

\* A key that is exactly a method token, whitespace and a path token.
WellFormedKey(routeKey) ==
    \E m, p \in 1..Len(routeKey) :
        /\ m < p
        /\ \A k \in 1..Len(routeKey) :
              (routeKey[k] \in WhiteSpace) <=> (m < k /\ k < p)
        /\ p - m > 1

\* C15: a route key that is not exactly a method token followed by a path
\* token is never registered.
C15_MalformedKeyRejected ==
    setup.pc = "registered" => WellFormedKey(setup.routeKey)

\* The policy of the route as the claim resolves it.
ResolvedPolicy ==
    IF setup.route.authPolicy \in AuthPolicy THEN setup.route.authPolicy
    ELSE IF setup.config.appAuthPolicy \in AuthPolicy
         THEN setup.config.appAuthPolicy
         ELSE "disabled"
AuthLayers ==
    {k \in 1..Len(setup.layers) :
        setup.layers[k].kind \in {"routeAuthHandler", "appAuthHandler"}}

\* C16: req.routeInfo.authPolicy, once written, is the route's policy when
\* set, else the global one when set, else disabled; the stack of the route
\* has an auth stage exactly when that policy is not disabled and an auth
\* handler is configured, so none when it is disabled.
C16_EffectiveAuthPolicy ==
    setup.pc = "registered" =>
        /\ Len(setup.ran) >= 1 => setup.routeInfo.authPolicy = ResolvedPolicy
        /\ AuthLayers # {} <=> (ResolvedPolicy # "disabled" /\ SomeAuthHandler)

C16_Witness ==
    /\ AllRan
    /\ setup.route.authPolicy = "disabled"
    /\ setup.config.appAuthPolicy = "required"
    /\ setup.route.authHandler # "undefined"
    /\ setup.config.appAuthHandler # "undefined"
    /\ setup.routeInfo.authPolicy = "disabled"
    /\ Ran("routeAuthHandler") \cup Ran("appAuthHandler") = {}

InitChain ==
    /\ NewRequest(NumUserMw + 1)
    /\ Elsewhere
    /\ setup = NoSetup
    /\ pair = NoPair
    /\ api = NoApi

SpecChain == InitChain /\ [][Next]_vars

\* A stage is executing from its start until it has called its next or its
\* function has nothing left to run; the handler until its function has.
Executing(i) ==
    /\ stages[i].pc # "idle"
    /\ stages[i].nextCalls = 0
    /\ stages[i].body \in {"active", "suspended", "timer"}
HandlerExecuting == handler.body \in {"active", "suspended"}

\* C12: a stage has begun only if the stage before it has called its next,
\* the handler only if the last stage has, and at no time are two stages, or
\* a stage and the handler, executing.
C12_OneStageAtATime ==
    /\ \A i \in DOMAIN stages :
          (i > 1 /\ stages[i].pc # "idle") => stages[i - 1].nextCalls >= 1
    /\ HandlerStarted => stages[Len(stages)].nextCalls >= 1
    /\ Cardinality({i \in DOMAIN stages : Executing(i)})
          + (IF HandlerExecuting THEN 1 ELSE 0) <= 1

\* ============================================================ two requests
\* Two requests to the same route of the same app. Every action is one
\* synchronous stretch of the code serving one request; the other request may
\* run between any two of them.
Requests == {1, 2}
AppCtx == 0
Written == {"a", "b"}

IdleRequest ==
    [pc |-> "new", routeInfo |-> 0, ctx |-> 0, originalContext |-> 0,
     reqCtx |-> 0]

\* ctx.create(name): a child with a copy of the parameters of its parent.
PairCreate(p, parent) ==
    [p EXCEPT !.ctxs = Append(@,
        [parentContext |-> parent,
         params |-> IF parent = AppCtx THEN "unset" ELSE @[parent].params,
         ended |-> FALSE])]

\* One routeInfo object for all requests.
RouteInfoShared(p, r) ==
    [p EXCEPT !.objs = IF @ = << >>
                       THEN <<[handlerName |-> "unset", note |-> "unset"]>>
                       ELSE @,
              !.reqs[r].routeInfo = 1]

\* req.routeInfo = {}
RouteInfoFresh(p, r) ==
    [p EXCEPT !.objs = Append(@, [handlerName |-> "unset", note |-> "unset"]),
              !.reqs[r].routeInfo = Len(p.objs) + 1]

InitPair ==
    /\ NewRequest(NumUserMw)
    /\ Elsewhere
    /\ setup = NoSetup
    /\ api = NoApi
    /\ pair = [pc |-> "serving", serving |-> 0, objs |-> << >>,
               ctxs |-> << >>, reqs |-> [r \in Requests |-> IdleRequest]]

\* setupBaseMiddleware: req.routeInfo = {}; req.originalContext = req.ctx =
\* ctx.create(...); req.ctx.set(REQUEST_ID_PARAM_NAME, requestId); next().
PairBase(r) ==
    /\ pair.reqs[r].pc = "new"
    /\ LET p1 == PairCreate(RouteInfoFresh(pair, r), AppCtx)
           root == Len(p1.ctxs)
       IN  pair' = [p1 EXCEPT !.serving = r,
                              !.reqs[r].pc = "based",
                              !.reqs[r].ctx = root,
                              !.reqs[r].originalContext = root]
    /\ UNCHANGED <<requestVars, setup, api, failure, contract, csrf,
                   visit, parse>>

\* The wrapped routeInfoMiddleware: a child context for the stage,
\* Object.assign(req.routeInfo, ...), next() with req.ctx set back; then the
\* wrapper of the user middleware: reqCtx = req.ctx, req.ctx = its child.
PairRouteInfo(r) ==
    /\ pair.reqs[r].pc = "based"
    /\ LET me == pair.reqs[r]
           p1 == PairCreate(pair, me.ctx)
           p2 == [p1 EXCEPT !.objs[me.routeInfo].handlerName = "route"]
           p3 == PairCreate(p2, me.ctx)
       IN  pair' = [p3 EXCEPT !.serving = r,
                              !.reqs[r].pc = "middleware",
                              !.reqs[r].reqCtx = me.ctx,
                              !.reqs[r].ctx = Len(p3.ctxs)]
    /\ UNCHANGED <<requestVars, setup, api, failure, contract, csrf,
                   visit, parse>>

\* User code of a middleware or of the handler: req.routeInfo.note = v.
PairWriteRouteInfo(r, v) ==
    /\ pair.reqs[r].pc \in {"middleware", "handler"}
    /\ pair' = [pair EXCEPT !.serving = r,
                            !.objs[pair.reqs[r].routeInfo].note = v]
    /\ UNCHANGED <<requestVars, setup, api, failure, contract, csrf,
                   visit, parse>>

\* User code: req.ctx.set(name, v).
PairSetParam(r, v) ==
    /\ pair.reqs[r].pc \in {"middleware", "handler"}
    /\ pair' = [pair EXCEPT !.serving = r,
                            !.ctxs[pair.reqs[r].ctx].params = v]
    /\ UNCHANGED <<requestVars, setup, api, failure, contract, csrf,
                   visit, parse>>

\* The middleware calls next: req.ctx = reqCtx, and the wrapped handler
\* starts: req.ctx = req.originalContext.create(handlerName); where the name
\* in req.routeInfo differs from the handler's (a mounted router) it is rewritten:
\* req.routeInfo.handlerName = handlerName.
PairNext(r) ==
    /\ pair.reqs[r].pc = "middleware"
    /\ LET me == pair.reqs[r]
           p1 == PairCreate([pair EXCEPT !.reqs[r].ctx = me.reqCtx],
                            me.originalContext)
       IN  pair' = [p1 EXCEPT !.serving = r,
                              !.reqs[r].pc = "handler",
                              !.reqs[r].ctx = Len(p1.ctxs),
                              !.objs[me.routeInfo].handlerName = "handler"]
    /\ UNCHANGED <<requestVars, setup, api, failure, contract, csrf,
                   visit, parse>>

\* The handler's promise has settled: req.ctx.end(); req.ctx =
\* req.originalContext.
PairHandlerDone(r) ==
    /\ pair.reqs[r].pc = "handler"
    /\ pair' = [pair EXCEPT !.serving = r,
                            !.ctxs[pair.reqs[r].ctx].ended = TRUE,
                            !.reqs[r].pc = "done",
                            !.reqs[r].ctx = pair.reqs[r].originalContext]
    /\ UNCHANGED <<requestVars, setup, api, failure, contract, csrf,
                   visit, parse>>

NextPair ==
    \/ \E r \in Requests : PairBase(r)
    \/ \E r \in Requests : PairRouteInfo(r)
    \/ \E r \in Requests, v \in Written : PairWriteRouteInfo(r, v)
    \/ \E r \in Requests, v \in Written : PairSetParam(r, v)
    \/ \E r \in Requests : PairNext(r)
    \/ \E r \in Requests : PairHandlerDone(r)

SpecPair == InitPair /\ [][NextPair]_vars

\* The root of the tree a context belongs to.
RECURSIVE RootOf(_, _)
RootOf(p, c) ==
    IF p.ctxs[c].parentContext = AppCtx THEN c
    ELSE RootOf(p, p.ctxs[c].parentContext)
\* What the code serving request r can read: its routeInfo object, req.ctx,
\* req.originalContext and the contexts of its tree.
Sees(p, r) ==
    LET me == p.reqs[r]
    IN  IF me.pc = "new" THEN <<"nothing">>
        ELSE <<p.objs[me.routeInfo], me.ctx, me.originalContext,
               [c \in {d \in 1..Len(p.ctxs) :
                          RootOf(p, d) = me.originalContext} |-> p.ctxs[c]]>>

\* C13: two requests never have the same routeInfo object or the same
\* context, the contexts a request uses belong to the tree of its own root,
\* and a step serving one request changes nothing the other request can read.
C13_RequestsIsolated ==
    /\ [](\A r, q \in Requests :
            (r # q /\ pair.reqs[r].pc # "new" /\ pair.reqs[q].pc # "new") =>
                /\ pair.reqs[r].routeInfo # pair.reqs[q].routeInfo
                /\ pair.reqs[r].originalContext # pair.reqs[q].originalContext
                /\ RootOf(pair, pair.reqs[r].ctx) = pair.reqs[r].originalContext)
    /\ [][\A r \in Requests :
            pair'.serving # r => Sees(pair', r) = Sees(pair, r)]_vars

C13_Witness ==
    /\ pair.reqs[1].pc = "handler"
    /\ pair.reqs[2].pc = "middleware"
    /\ pair.objs[pair.reqs[1].routeInfo].note = "a"
    /\ pair.objs[pair.reqs[2].routeInfo].note = "b"
    /\ pair.ctxs[pair.reqs[1].ctx].params = "a"
    /\ pair.ctxs[pair.reqs[2].ctx].params = "b"

\* ================================================================== withApi
\* One call of the handler that withApi(config)(handler) returns: automatic
\* validation unless manualValidation is true, the handler, which may call
\* req.validate() and may write to the request, and the catch around both.
MaxValidateCalls == 2   \* calls of req.validate() the handler makes
MaxWrites == 1          \* writes of the handler to the request

Parts == <<"body", "params", "query", "headers">>
PartNames == {Parts[k] : k \in 1..Len(Parts)}

\* Values of a request part: "loose" is accepted by the schema of its part
\* and parsed to "valid" (coerced, unknown keys stripped), "valid" is parsed
\* to itself, "bad" breaks two rules of the schema, "empty" is {} and lacks a
\* required key.
Received == {"loose", "bad"}
Writable == {"loose", "bad", "empty"}

\* schema.safeParseAsync(value) of the schema declared for one part.
SafeParse(value) ==
    CASE value = "loose" -> [success |-> TRUE, data |-> "valid", issues |-> {}]
      [] value = "valid" -> [success |-> TRUE, data |-> "valid", issues |-> {}]
      [] value = "bad" ->
            [success |-> FALSE, data |-> "none",
             issues |-> {<<"value">>, <<"other">>}]
      [] OTHER ->
            [success |-> FALSE, data |-> "none", issues |-> {<<"value">>}]

\* z.object(shape).safeParseAsync(dataToValidate): every key of the shape is
\* parsed, the issues of a key are reported under the key.
ObjectParse(shape, dataToValidate) ==
    LET issues == UNION {{<<part>> \o path :
                             path \in SafeParse(dataToValidate[part]).issues} :
                         part \in shape}
    IN  [success |-> issues = {},
         issues |-> issues,
         data |-> [part \in shape |-> SafeParse(dataToValidate[part]).data]]

\* A validation that stops at the first part that is invalid.
ValidateFirstInvalid(a) ==
    LET shape == a.config.request
        invalid == {k \in 1..Len(Parts) :
                       Parts[k] \in shape /\ ~SafeParse(a.req[Parts[k]]).success}
        first == IF invalid = {} THEN shape
                 ELSE {Parts[CHOOSE k \in invalid : \A j \in invalid : k <= j]}
        result == ObjectParse(first, a.req)
    IN  IF shape = {}
        THEN [success |-> TRUE, issues |-> {},
              data |-> [part \in PartNames |-> "empty"]]
        ELSE IF ~result.success
        THEN [success |-> FALSE, issues |-> result.issues,
              data |-> [part \in PartNames |-> "none"]]
        ELSE [success |-> TRUE, issues |-> {},
              data |-> [part \in PartNames |->
                          IF part \in shape THEN result.data[part]
                          ELSE "empty"]]

\* A validation that answers with the outcome of the call before it.
ValidateCached(a) ==
    LET shape == a.config.request
        result == ObjectParse(shape, a.req)
    IN  IF a.validations # << >>
        THEN a.validations[Len(a.validations)].outcome
        ELSE IF shape = {}
        THEN [success |-> TRUE, issues |-> {},
              data |-> [part \in PartNames |-> "empty"]]
        ELSE IF ~result.success
        THEN [success |-> FALSE, issues |-> result.issues,
              data |-> [part \in PartNames |-> "none"]]
        ELSE [success |-> TRUE, issues |-> {},
              data |-> [part \in PartNames |->
                          IF part \in shape THEN result.data[part]
                          ELSE "empty"]]

\* enhancedReq.validate: the declared parts of the live request are parsed as
\* one object; a failure is one ValidationError with the issues of the parse;
\* the value returned has {} for every part that was not parsed.
Validate(a) ==
    LET shape == a.config.request
        result == ObjectParse(shape, a.req)
    IN  IF shape = {}
        THEN [success |-> TRUE, issues |-> {},
              data |-> [part \in PartNames |-> "empty"]]
        ELSE IF ~result.success
        THEN [success |-> FALSE, issues |-> result.issues,
              data |-> [part \in PartNames |-> "none"]]
        ELSE [success |-> TRUE, issues |-> {},
              data |-> [part \in PartNames |->
                          IF part \in shape THEN result.data[part]
                          ELSE "empty"]]

\* A call of validate, with what it was called on and what it answered.
Validated(a, by) ==
    [a EXCEPT !.validations =
                  Append(@, [by |-> by, input |-> a.req, outcome |-> Validate(a)])]
LastOutcome(a) == a.validations[Len(a.validations)].outcome

\* await handler(enhancedReq, enhancedRes): the handler starts.
Invoke(a) ==
    [a EXCEPT !.pc = "handler", !.handlerInvoked = TRUE,
              !.invokedAfter = Len(a.validations)]

\* catch (error): a ValidationError is answered with error.statusCode || 400
\* and the issues, unless the headers are sent.
CatchValidationError(a) ==
    IF a.res.headersSent THEN [a EXCEPT !.pc = "done"]
    ELSE [a EXCEPT !.pc = "done",
                   !.res = [headersSent |-> TRUE, statusCode |-> 400,
                            code |-> "VALIDATION_ERROR",
                            issues |-> LastOutcome(a).issues]]

\* A try block that starts the handler whatever the validation answered.
TryBlockIgnoresOutcome(a) ==
    IF a.config.manualValidation THEN Invoke(a)
    ELSE LET a1 == Validated(a, "auto")
         IN  IF LastOutcome(a1).success
             THEN Invoke([a1 EXCEPT !.req = LastOutcome(a1).data])
             ELSE Invoke(a1)

\* try { if (config.manualValidation !== true) { validatedData = await
\* enhancedReq.validate(); body, params, query, headers = validatedData.* }
\* await handler(...) } catch ...
TryBlock(a) ==
    IF a.config.manualValidation THEN Invoke(a)
    ELSE LET a1 == Validated(a, "auto")
         IN  IF LastOutcome(a1).success
             THEN Invoke([a1 EXCEPT !.req = LastOutcome(a1).data])
             ELSE CatchValidationError(a1)

ApiConfigs == [manualValidation : BOOLEAN, request : SUBSET PartNames]

NewApi(config, received) ==
    [pc |-> "new", config |-> config, req |-> received, received |-> received,
     validations |-> << >>, handlerInvoked |-> FALSE, invokedAfter |-> 0,
     writes |-> 0,
     res |-> [headersSent |-> FALSE, statusCode |-> 0, code |-> "none",
              issues |-> {}]]

InitApi ==
    /\ NewRequest(NumUserMw)
    /\ Elsewhere
    /\ setup = NoSetup
    /\ pair = NoPair
    /\ \E config \in ApiConfigs, received \in [PartNames -> Received] :
          api = NewApi(config, received)

\* finalHandler is called by the route.
FinalHandlerCalled ==
    /\ api.pc = "new"
    /\ api' = TryBlock(api)
    /\ UNCHANGED <<requestVars, setup, pair, failure, contract, csrf,
                   visit, parse>>

\* The handler calls req.validate(); it may catch the ValidationError.
HandlerValidates(catches) ==
    /\ api.pc = "handler"
    /\ Cardinality({k \in 1..Len(api.validations) :
                       api.validations[k].by = "handler"}) < MaxValidateCalls
    /\ LET a1 == Validated(api, "handler")
       IN  api' = IF LastOutcome(a1).success \/ catches THEN a1
                  ELSE CatchValidationError(a1)
    /\ UNCHANGED <<requestVars, setup, pair, failure, contract, csrf,
                   visit, parse>>

\* The handler assigns to a part of the request.
HandlerWrites(part, value) ==
    /\ api.pc = "handler"
    /\ api.writes < MaxWrites
    /\ api' = [api EXCEPT !.req[part] = value, !.writes = @ + 1]
    /\ UNCHANGED <<requestVars, setup, pair, failure, contract, csrf,
                   visit, parse>>

\* The handler answers with res.typedJson(200, data) and returns.
HandlerAnswers ==
    /\ api.pc = "handler"
    /\ api' = [api EXCEPT !.pc = "done",
                          !.res = [headersSent |-> TRUE, statusCode |-> 200,
                                   code |-> "none", issues |-> {}]]
    /\ UNCHANGED <<requestVars, setup, pair, failure, contract, csrf,
                   visit, parse>>

NextApi ==
    \/ FinalHandlerCalled
    \/ \E catches \in BOOLEAN : HandlerValidates(catches)
    \/ \E part \in PartNames, value \in Writable : HandlerWrites(part, value)
    \/ HandlerAnswers

SpecApi == InitApi /\ [][NextApi]_vars

\* ------------------------------------------------- properties of withApi
AutoMode == api.pc # "none" /\ ~api.config.manualValidation
ManualMode == api.pc # "none" /\ api.config.manualValidation
Calls == 1..Len(api.validations)
\* The declared parts of a request that their schemas reject.
InvalidParts(request) ==
    {part \in api.config.request : ~SafeParse(request[part]).success}

\* C17: in automatic mode the handler is invoked only after one validation,
\* which succeeded, and never after one that failed; in manual mode it is
\* invoked with no validation run, and every validation is a call of
\* validate() by the handler.
C17_ValidationBeforeHandler ==
    /\ AutoMode =>
          /\ api.pc # "new" =>
                /\ api.validations # << >>
                /\ api.validations[1].by = "auto"
                /\ api.handlerInvoked <=> api.validations[1].outcome.success
          /\ api.handlerInvoked => api.invokedAfter = 1
          /\ \A k \in Calls : k > 1 => api.validations[k].by = "handler"
    /\ ManualMode =>
          /\ api.handlerInvoked => api.invokedAfter = 0
          /\ api.pc # "new" => api.handlerInvoked
          /\ \A k \in Calls : api.validations[k].by = "handler"

C17_Witness ==
    /\ AutoMode
    /\ api.pc = "done"
    /\ ~api.handlerInvoked
    /\ ~api.validations[1].outcome.success
    /\ api.res.statusCode = 400

\* C18: when automatic validation has succeeded and the handler starts, each
\* part with a declared schema holds the value its schema parsed, and each
\* part without one holds what was received.
C18_UndeclaredPartsKept ==
    (AutoMode /\ api.pc = "handler" /\ api.writes = 0) =>
        \A part \in PartNames :
            api.req[part] = IF part \in api.config.request
                            THEN SafeParse(api.received[part]).data
                            ELSE api.received[part]

\* C19: a validation of a request with invalid declared parts fails, and its
\* one error lists the issues of every invalid part, each under a path that
\* starts with the name of its part, and nothing else.
C19_AllIssuesInOneError ==
    \A k \in Calls :
        LET call == api.validations[k]
        IN  /\ InvalidParts(call.input) # {} <=> ~call.outcome.success
            /\ \A part \in InvalidParts(call.input) :
                  \A path \in SafeParse(call.input[part]).issues :
                      <<part>> \o path \in call.outcome.issues
            /\ \A issue \in call.outcome.issues :
                  /\ issue[1] \in InvalidParts(call.input)
                  /\ Tail(issue) \in SafeParse(call.input[issue[1]]).issues

C19_Witness ==
    /\ api.pc = "done"
    /\ api.res.code = "VALIDATION_ERROR"
    /\ {issue[1] : issue \in api.res.issues} = {"body", "query", "headers"}
    /\ Cardinality(api.res.issues) = 6

\* C20: every call of validate() answers for the request as it is at the
\* call, a call by the handler leaves body, params, query and headers as they
\* were, and calls on the same request answer the same.
C20_ValidateRepeatable ==
    /\ [](\A k \in Calls :
            LET call == api.validations[k]
            IN  /\ call.outcome.success <=> InvalidParts(call.input) = {}
                /\ \A j \in Calls :
                      api.validations[j].input = call.input
                         => api.validations[j].outcome = call.outcome)
    /\ [][(Len(api'.validations) > Len(api.validations)
             /\ api'.validations[Len(api'.validations)].by = "handler")
          => api'.req = api.req]_vars

C20_Witness ==
    /\ ManualMode
    /\ Len(api.validations) = 2
    /\ api.validations[1].outcome.success
    /\ ~api.validations[2].outcome.success
    /\ api.validations[1].input # api.validations[2].input


\* ===================================================================
\* The app's error handlers: validationErrorMiddleware, the user's final
\* handler when configured, and finalRequestHandler, in that order
\* ===================================================================

\* Most issues a ZodError holds in the errors drawn here.
MaxIssues == 2

\* Issues as zod reports them: more fields than the response repeats.
ZodIssues ==
    { [path |-> <<"body", "name">>, message |-> "Required",
       code |-> "invalid_type", received |-> "undefined"],
      [path |-> <<"query", "page">>, message |-> "Too small",
       code |-> "too_small", received |-> "0"] }

\* err.zodError: absent, or the issues of one parse.
NoZodError == [defined |-> FALSE, issues |-> <<>>]
ZodErrors ==
    {NoZodError} \cup
    { [defined |-> TRUE, issues |-> q] :
        q \in UNION {[1..n -> ZodIssues] : n \in 0..MaxIssues} }

\* new ValidationError(message, zodError, statusCode = 400)
ValidationError(message, zodError, statusCode) ==
    [kind |-> "validation", message |-> message, zodError |-> zodError,
     statusCode |-> statusCode]

\* new ResponseValidationError(message, zodError, statusCode = 500)
ResponseValidationError(message, zodError, statusCode) ==
    [kind |-> "response", message |-> message, zodError |-> zodError,
     statusCode |-> statusCode]

\* Any other error; statusCode 0 stands for an error without that property.
OtherError(message, statusCode) ==
    [kind |-> "other", message |-> message, zodError |-> NoZodError,
     statusCode |-> statusCode]

Messages == {"", "Invalid request"}
\* What a failing user handler throws or rejects with.
HandlerFailure == OtherError("final handler failed", 0)

RaisedErrors ==
    { ValidationError(m, z, c) :
        m \in Messages, z \in ZodErrors, c \in {400, 422} }
    \cup { ResponseValidationError(m, z, 500) :
             m \in Messages, z \in ZodErrors }
    \cup { OtherError(m, c) : m \in Messages, c \in {0, 400, 404, 500, 503} }

\* a || b on strings
OrText(a, b) == IF a = "" THEN b ELSE a

NoBody == [kind |-> "none"]
UnsentResponse ==
    [headersSent |-> FALSE, statusCode |-> 200, body |-> NoBody, by |-> "none"]

\* res.sendError(statusCode, data): status, then the JSON body.
sendError(r, statusCode, data, by) ==
    [r EXCEPT !.headersSent = TRUE, !.statusCode = statusCode,
              !.body = data, !.by = by]

\* zodError?.issues.map(issue => ({path, message, code}))
IssuesOf(zodError) ==
    [defined |-> zodError.defined,
     items |-> [k \in DOMAIN zodError.issues |->
                  [path |-> zodError.issues[k].path,
                   message |-> zodError.issues[k].message,
                   code |-> zodError.issues[k].code]]]

\* The classifier with the issues of a response validation error repeated
\* in the body.
validationErrorMiddlewareWithIssues(err, r) ==
    CASE err.kind = "validation" ->
           [res |-> IF r.headersSent THEN r
                    ELSE sendError(r, 400,
                           [kind |-> "json",
                            error |-> OrText(err.message, "Validation error"),
                            code |-> "VALIDATION_FAILED",
                            issues |-> IssuesOf(err.zodError)], "classifier"),
            next |-> <<>>]
      [] err.kind = "response" ->
           [res |-> IF r.headersSent THEN r
                    ELSE sendError(r, 500,
                           [kind |-> "json",
                            error |-> OrText(err.message,
                                             "Internal Server Error"),
                            code |-> "RESPONSE_VALIDATION_FAILED",
                            issues |-> IssuesOf(err.zodError)], "classifier"),
            next |-> <<>>]
      [] OTHER -> [res |-> r, next |-> <<err>>]

\* validationErrorMiddleware(err, req, res, next): what it leaves in the
\* response and the arguments of its call of next, if it calls it.
validationErrorMiddleware(err, r) ==
    CASE err.kind = "validation" ->
           [res |-> IF r.headersSent THEN r
                    ELSE sendError(r, 400,
                           [kind |-> "json",
                            error |-> OrText(err.message, "Validation error"),
                            code |-> "VALIDATION_FAILED",
                            issues |-> IssuesOf(err.zodError)], "classifier"),
            next |-> <<>>]
      [] err.kind = "response" ->
           [res |-> IF r.headersSent THEN r
                    ELSE sendError(r, 500,
                           [kind |-> "json",
                            error |-> OrText(err.message,
                                             "Internal Server Error"),
                            code |-> "RESPONSE_VALIDATION_FAILED",
                            issues |-> IssuesOf(NoZodError)], "classifier"),
            next |-> <<>>]
      [] OTHER -> [res |-> r, next |-> <<err>>]

\* The order of registration with finalRequestHandler put before the
\* user's handler.
AfterClassifierDefaultFirst(f) == "default"

\* expressApp.use order after the classifier: the user's final handler when
\* configured, then finalRequestHandler.
AfterClassifier(f) ==
    IF f.config.appFinalErrorHandler THEN "user" ELSE "default"

Visit(f, who, outcome) ==
    [f EXCEPT !.trail = Append(@, [who |-> who, err |-> f.err,
                                    outcome |-> outcome])]

\* The error enters the chain of error handlers at the classifier.
NewFailure(config, err, sent, twinZod) ==
    [pc |-> "classifier", config |-> config, err |-> err,
     res |-> [UnsentResponse EXCEPT !.headersSent = sent,
                                    !.by = IF sent THEN "route" ELSE "none"],
     trail |-> <<>>, logged |-> <<>>,
     twin |-> [err |-> [err EXCEPT !.zodError = twinZod],
               res |-> [UnsentResponse EXCEPT !.headersSent = sent,
                          !.by = IF sent THEN "route" ELSE "none"]]]

InitErrors ==
    /\ NewRequest(NumUserMw)
    /\ setup = NoSetup /\ pair = NoPair /\ api = NoApi
    /\ contract = NoContract /\ csrf = NoCsrf /\ Aside
    /\ \E user \in BOOLEAN, err \in RaisedErrors, sent \in BOOLEAN,
          twinZod \in ZodErrors :
          /\ err.kind = "other" => twinZod = NoZodError
          /\ failure = NewFailure([appFinalErrorHandler |-> user], err, sent,
                                  twinZod)

\* The classifier handles the error, and the same error with other issues
\* beside it.
Classify ==
    /\ failure.pc = "classifier"
    /\ LET out == validationErrorMiddleware(failure.err, failure.res)
           two == validationErrorMiddleware(failure.twin.err,
                                            failure.twin.res)
           f1 == [failure EXCEPT !.res = out.res, !.twin.res = two.res]
       IN  failure' =
             IF out.next = <<>>
             THEN [Visit(f1, "classifier", "handled") EXCEPT !.pc = "done"]
             ELSE [Visit(f1, "classifier", "forwarded") EXCEPT
                     !.err = out.next[1], !.pc = AfterClassifier(failure)]
    /\ UNCHANGED <<requestVars, setup, pair, api, contract, csrf,
                   visit, parse>>

\* appFinalRequestHandler: Promise.resolve(appFinalErrorHandler(...)).catch(next)
\* The user's handler answers, forwards the error, throws, or rejects.
AppFinalRequestHandler(behaviour) ==
    /\ failure.pc = "user"
    /\ failure' =
         CASE behaviour = "answers" ->
                [Visit(failure, "user", behaviour) EXCEPT
                   !.pc = "done",
                   !.res = IF @.headersSent THEN @
                           ELSE sendError(@, 500,
                                  [kind |-> "text", text |-> "custom"],
                                  "user")]
           [] behaviour = "forwards" ->
                [Visit(failure, "user", behaviour) EXCEPT !.pc = "default"]
           [] OTHER ->
                [Visit(failure, "user", behaviour) EXCEPT
                   !.pc = "default", !.err = HandlerFailure]
    /\ UNCHANGED <<requestVars, setup, pair, api, contract, csrf,
                   visit, parse>>

\* finalRequestHandler: logs, then answers with the error's statusCode or 500.
finalRequestHandler(f) ==
    LET statusCode == IF f.err.statusCode = 0 THEN 500 ELSE f.err.statusCode
        f1 == [Visit(f, "default", "answers") EXCEPT
                 !.logged = Append(@, f.err)]
    IN  IF f.res.headersSent
        THEN [f1 EXCEPT !.pc = "failed"]
        ELSE [f1 EXCEPT
                !.pc = "done",
                !.res = sendError(@, statusCode,
                          [kind |-> "text",
                           text |-> IF statusCode = 400 THEN "Bad request"
                                    ELSE "Internal server error"],
                          "default")]

DefaultFinal ==
    /\ failure.pc = "default"
    /\ failure' = finalRequestHandler(failure)
    /\ UNCHANGED <<requestVars, setup, pair, api, contract, csrf,
                   visit, parse>>

NextErrors ==
    \/ Classify
    \/ \E behaviour \in {"answers", "forwards", "throws", "rejects"} :
          AppFinalRequestHandler(behaviour)
    \/ DefaultFinal

SpecErrors == InitErrors /\ [][NextErrors]_vars

\* The response was still unsent when the error reached the classifier.
UnsentAtClassifier == failure.pc # "none" /\ failure.res.by # "route"
ClassifierDone ==
    /\ failure.pc = "done"
    /\ Len(failure.trail) = 1
    /\ failure.trail[1].outcome = "handled"

\* C36: none of the error handlers of the app (the classifier, the wrapper of
\* the user's final handler, finalRequestHandler) writes a status or a body
\* once a response has been sent for the request: with the headers sent the
\* response stays as it is and no write is attempted on it.
C36_NoWriteAfterSent ==
    [][(failure.pc # "none" /\ failure.res.headersSent) =>
          /\ failure'.res = failure.res
          /\ failure'.pc # "failed"]_vars

\* C25: a ValidationError that reaches the classifier before any response
\* is answered with the error's own status hint and the body {error,
\* code: "VALIDATION_ERROR", issues}, one {path, message, code} per issue.
C25_ValidationErrorAnswer ==
    (ClassifierDone /\ UnsentAtClassifier /\ failure.err.kind = "validation")
        => /\ failure.res.statusCode = failure.err.statusCode
           /\ failure.res.body.code = "VALIDATION_ERROR"
           /\ failure.res.body.issues = IssuesOf(failure.err.zodError)

\* C26: a response validation error that reaches the classifier before any
\* response is answered with 500 and a body of an error text and the code
\* RESPONSE_VALIDATION_FAILED only; the same error with other schema issues
\* gets the same body.
C26_SerializationErrorAnswer ==
    (ClassifierDone /\ UnsentAtClassifier /\ failure.err.kind = "response")
        => /\ failure.res.statusCode = 500
           /\ failure.res.body.kind = "json"
           /\ failure.res.body.error \in {failure.err.message,
                                          "Internal Server Error"}
           /\ failure.res.body.error # ""
           /\ failure.res.body.code = "RESPONSE_VALIDATION_FAILED"
           /\ ~failure.res.body.issues.defined
           /\ failure.twin.res.body = failure.res.body

C26_Witness ==
    /\ ClassifierDone
    /\ failure.err.kind = "response"
    /\ failure.res.by = "classifier"
    /\ Len(failure.err.zodError.issues) = 2
    /\ Len(failure.twin.err.zodError.issues) = 1
    /\ failure.twin.res.by = "classifier"

\* C27: the classifier hands any other error on as it is and writes nothing;
\* the error goes to the user's final handler first when one is configured,
\* and finalRequestHandler gets an error only after that handler forwarded,
\* threw or rejected.
C27_OtherErrorsForwarded ==
    /\ [][(failure.pc = "classifier" /\ failure.err.kind = "other")
            => /\ failure'.res = failure.res
               /\ failure'.err = failure.err
               /\ failure'.logged = failure.logged
               /\ failure'.pc = IF failure.config.appFinalErrorHandler
                                THEN "user" ELSE "default"]_vars
    /\ [](failure.pc # "none" =>
            \A k \in DOMAIN failure.trail :
               (failure.trail[k].who = "default"
                  /\ failure.config.appFinalErrorHandler)
                 => /\ k > 1
                    /\ failure.trail[k - 1].who = "user"
                    /\ failure.trail[k - 1].outcome
                         \in {"forwards", "throws", "rejects"})

C27_Witness ==
    /\ failure.pc = "done"
    /\ failure.config.appFinalErrorHandler
    /\ Len(failure.trail) = 3
    /\ failure.trail[1].outcome = "forwarded"
    /\ failure.trail[2].who = "user"
    /\ failure.trail[2].outcome = "rejects"
    /\ failure.trail[2].err = failure.trail[1].err
    /\ failure.trail[3].who = "default"
    /\ failure.res.by = "default"

\* C28: finalRequestHandler logs the error and answers 400 with the
\* bad-request text for every 4xx status hint, and 500 with the
\* internal-error text in every other case.
C28_DefaultHandlerAnswer ==
    (failure.pc = "done" /\ failure.res.by = "default")
        => LET err == failure.trail[Len(failure.trail)].err
           IN  /\ failure.logged = <<err>>
               /\ IF err.statusCode \in 400..499
                  THEN /\ failure.res.statusCode = 400
                       /\ failure.res.body.text = "Bad request"
                  ELSE /\ failure.res.statusCode = 500
                       /\ failure.res.body.text = "Internal server error"


\* ===================================================================
\* Responses of a typed route: typedJson and serialize, the catch block
\* around the handler, and the content-type gate in front of validation
\* ===================================================================

\* Longest array in the response data drawn here.
MaxItems == 2

\* JavaScript values.
Undef == [t |-> "undefined"]
Absent == [t |-> "absent"]
Str(v) == [t |-> "string", v |-> v]
Num(v) == [t |-> "number", v |-> v]
Obj(f) == [t |-> "object", f |-> f]
Arr(items) == [t |-> "array", items |-> items]

\* An object literal: the members given, without those marked absent.
Members(m) == Obj([k \in {j \in DOMAIN m : m[j] # Absent} |-> m[k]])

\* zod schemas.
ZString == [t |-> "ZodString"]
ZUndefined == [t |-> "ZodUndefined"]
ZDefault(of, value) == [t |-> "ZodDefault", of |-> of, value |-> value]
ZObject(shape) == [t |-> "ZodObject", shape |-> shape]
ZArray(of) == [t |-> "ZodArray", of |-> of]

ParseFailure == [success |-> FALSE, data |-> Undef]

\* schema.safeParse(data): unknown keys of an object are dropped, a default
\* stands in for an undefined member, members and items are parsed in turn.
RECURSIVE safeParse(_, _)
safeParse(schema, data) ==
    CASE schema.t = "ZodString" ->
           IF data.t = "string" THEN [success |-> TRUE, data |-> data]
           ELSE ParseFailure
      [] schema.t = "ZodUndefined" ->
           IF data.t = "undefined" THEN [success |-> TRUE, data |-> data]
           ELSE ParseFailure
      [] schema.t = "ZodDefault" ->
           IF data.t = "undefined"
           THEN [success |-> TRUE, data |-> schema.value]
           ELSE safeParse(schema.of, data)
      [] schema.t = "ZodObject" ->
           IF data.t # "object" THEN ParseFailure
           ELSE LET member(k) == IF k \in DOMAIN data.f THEN data.f[k]
                                 ELSE Undef
                    parsed == [k \in DOMAIN schema.shape |->
                                 safeParse(schema.shape[k], member(k))]
                IN  IF \A k \in DOMAIN parsed : parsed[k].success
                    THEN [success |-> TRUE,
                          data |-> Obj([k \in DOMAIN parsed |->
                                          parsed[k].data])]
                    ELSE ParseFailure
      [] schema.t = "ZodArray" ->
           IF data.t # "array" THEN ParseFailure
           ELSE LET parsed == [k \in DOMAIN data.items |->
                                 safeParse(schema.of, data.items[k])]
                IN  IF \A k \in DOMAIN parsed : parsed[k].success
                    THEN [success |-> TRUE,
                          data |-> Arr([k \in DOMAIN parsed |->
                                          parsed[k].data])]
                    ELSE ParseFailure

\* JSON.stringify as res.json applies it: members whose value is undefined
\* are left out.
RECURSIVE Json(_)
Json(value) ==
    CASE value.t = "object" ->
           Obj([k \in {j \in DOMAIN value.f : value.f[j].t # "undefined"} |->
                  Json(value.f[k])])
      [] value.t = "array" ->
           Arr([k \in DOMAIN value.items |-> Json(value.items[k])])
      [] OTHER -> value

EmptyBody == [kind |-> "empty"]
\* Statuses for which res.send drops the body.
NoBodyStatus == {204, 304}

\* expressRes.status(statusCode)
status(r, statusCode) == [r EXCEPT !.statusCode = statusCode]

\* expressRes.json(value)
json(r, value, by) ==
    [r EXCEPT !.headersSent = TRUE, !.by = by,
              !.body = IF r.statusCode \in NoBodyStatus
                          \/ value.t = "undefined"
                       THEN EmptyBody
                       ELSE [kind |-> "json", value |-> Json(value)]]

\* The schema of the route's 200 response.
ItemSchema ==
    ZObject([id |-> ZString,
             role |-> ZDefault(ZString, Str("user")),
             owner |-> ZObject([name |-> ZString]),
             tags |-> ZArray(ZObject([label |-> ZString]))])

\* config.responses[statusCode] and its schema, when there is none.
NoResponseDef == [declared |-> FALSE, schema |-> Undef]
NoSchema == [declared |-> TRUE, schema |-> Undef]
ResponseDef(schema) == [declared |-> TRUE, schema |-> schema]

TypeError == OtherError("TypeError", 0)
Thrown(c, err) == [c EXCEPT !.pc = "thrown", !.error = err]

\* enhancedRes.typedJson(statusCode, data)
typedJson(c, statusCode, data) ==
    [c EXCEPT !.pc = "done",
              !.res = json(status(@, statusCode), data, "typedJson")]

\* A serialize that sends the data it was given after checking it.
serializeUnparsed(c, statusCode, data) ==
    LET responseDef == c.config.responses[statusCode]
    IN  IF ~responseDef.declared \/ responseDef.schema = Undef
        THEN Thrown(c, TypeError)
        ELSE LET result == safeParse(responseDef.schema, data)
             IN  IF ~result.success
                 THEN Thrown(c, ResponseValidationError(
                                   "Invalid response data for status code",
                                   [defined |-> TRUE, issues |-> <<>>], 500))
                 ELSE [c EXCEPT
                         !.pc = "done",
                         !.res = json(status(@, statusCode), data,
                                      "serialize")]

\* A serialize that sets the status before it checks the data.
serializeStatusFirst(c, statusCode, data) ==
    LET responseDef == c.config.responses[statusCode]
        c1 == [c EXCEPT !.res = status(@, statusCode)]
    IN  IF ~responseDef.declared \/ responseDef.schema = Undef
        THEN Thrown(c1, TypeError)
        ELSE LET result == safeParse(responseDef.schema, data)
             IN  IF ~result.success
                 THEN Thrown(c1, ResponseValidationError(
                                    "Invalid response data for status code",
                                    [defined |-> TRUE, issues |-> <<>>], 500))
                 ELSE [c1 EXCEPT
                         !.pc = "done",
                         !.res = json(@, result.data, "serialize")]

\* enhancedRes.serialize(statusCode, data)
serialize(c, statusCode, data) ==
    LET responseDef == c.config.responses[statusCode]
    IN  IF ~responseDef.declared \/ responseDef.schema = Undef
        THEN Thrown(c, TypeError)
        ELSE LET result == safeParse(responseDef.schema, data)
             IN  IF ~result.success
                 THEN Thrown(c, ResponseValidationError(
                                   "Invalid response data for status code",
                                   [defined |-> TRUE, issues |-> <<>>], 500))
                 ELSE [c EXCEPT
                         !.pc = "done",
                         !.res = json(status(@, statusCode), result.data,
                                      "serialize")]

\* The catch around the handler: a ResponseValidationError is answered
\* here, any other error is thrown on.
CatchResponseError(c) ==
    IF c.error.kind = "response"
    THEN [c EXCEPT
            !.pc = "done",
            !.res = IF @.headersSent THEN @
                    ELSE sendError(@, 500,
                           [kind |-> "json", error |-> "Internal Server Error",
                            code |-> "RESPONSE_SERIALIZATION_FAILED"],
                           "catch")]
    ELSE [c EXCEPT !.pc = "rethrown"]

\* Content types a request and a route can name.
ContentTypes ==
    {"application/json", "application/x-www-form-urlencoded", "text/plain"}
\* request.contentType of the route: undefined, or a list.
AllowedLists ==
    {Undefined, <<"application/x-www-form-urlencoded">>,
     <<"application/json", "application/x-www-form-urlencoded">>}
DefaultContentTypes == <<"application/json">>

Range(q) == {q[k] : k \in DOMAIN q}

\* The declared content types, or the default single one.
AllowedContentTypes(config) ==
    Range(IF config.request.contentType = Undefined
          THEN DefaultContentTypes ELSE config.request.contentType)

\* A gate that looks at the content type only after the body passed its schema.
ContentTypeGateAfterBody(c) ==
    IF c.config.request.body
    THEN IF ~c.req.bodyValid
         THEN [c EXCEPT !.pc = "raised", !.validated = TRUE,
                        !.error = ValidationError("Invalid request data",
                                    [defined |-> TRUE, issues |-> <<>>], 400)]
         ELSE IF c.req.contentType \notin AllowedContentTypes(c.config)
              THEN [c EXCEPT !.pc = "raised", !.validated = TRUE,
                             !.error = ValidationError(
                                         "Unsupported content-type",
                                         NoZodError, 400)]
              ELSE [c EXCEPT !.pc = "validate"]
    ELSE [c EXCEPT !.pc = "validate"]

\* The content-type gate of a route with a declared body schema.
ContentTypeGate(c) ==
    IF c.config.request.body
       /\ c.req.contentType \notin AllowedContentTypes(c.config)
    THEN [c EXCEPT !.pc = "raised",
                   !.error = ValidationError("Unsupported content-type",
                                             NoZodError, 400)]
    ELSE [c EXCEPT !.pc = "validate"]

\* Validation of the request body against its schema, when one is declared.
BodyValidation(c) ==
    IF c.config.request.body
    THEN IF c.req.bodyValid
         THEN [c EXCEPT !.pc = "handler", !.validated = TRUE]
         ELSE [c EXCEPT !.pc = "raised", !.validated = TRUE,
                        !.error = ValidationError("Invalid request data",
                                    [defined |-> TRUE, issues |-> <<>>], 400)]
    ELSE [c EXCEPT !.pc = "handler"]

Owners ==
    { Members([name |-> Str("ann"), extra |-> e]) :
        e \in {Absent, Str("drop-me")} }
Tags ==
    { Members([label |-> l, extra |-> e]) :
        l \in {Str("a")}, e \in {Absent, Str("drop-me")} }
    \cup {Members([label |-> Num("1"), extra |-> Absent])}
TagLists == UNION {[1..n -> Tags] : n \in 0..MaxItems}

\* What a handler passes to typedJson or serialize.
ResponseData ==
    { Members([id |-> i, role |-> r, extra |-> e, owner |-> o,
               tags |-> Arr(t)]) :
        i \in {Str("x"), Num("1")}, r \in {Absent, Undef, Str("admin")},
        e \in {Absent, Str("drop-me")}, o \in Owners, t \in TagLists }
    \cup {Undef}

Statuses == {200, 204}
NoCall == [method |-> "none", statusCode |-> 0, data |-> Undef]

NewContract(config, request) ==
    [pc |-> "gate", config |-> config, req |-> request,
     res |-> UnsentResponse, validated |-> FALSE,
     error |-> OtherError("", 0), call |-> NoCall]

InitContract ==
    /\ NewRequest(NumUserMw)
    /\ setup = NoSetup /\ pair = NoPair /\ api = NoApi
    /\ failure = NoFailure /\ csrf = NoCsrf /\ Aside
    /\ \E body \in BOOLEAN, allowed \in AllowedLists,
          noContent \in {NoResponseDef, NoSchema, ResponseDef(ZUndefined)},
          contentType \in ContentTypes, bodyValid \in BOOLEAN :
          contract =
            NewContract(
              [request |-> [body |-> body, contentType |-> allowed],
               responses |-> [k \in Statuses |->
                                IF k = 200 THEN ResponseDef(ItemSchema)
                                ELSE noContent]],
              [contentType |-> contentType, bodyValid |-> bodyValid])

Gate ==
    /\ contract.pc = "gate"
    /\ contract' = ContentTypeGate(contract)
    /\ UNCHANGED <<requestVars, setup, pair, api, failure, csrf,
                   visit, parse>>

ValidateRequest ==
    /\ contract.pc = "validate"
    /\ contract' = BodyValidation(contract)
    /\ UNCHANGED <<requestVars, setup, pair, api, failure, csrf,
                   visit, parse>>

\* A ValidationError raised in front of the handler goes to the classifier.
RaisedToClassifier ==
    /\ contract.pc = "raised"
    /\ contract' =
         [contract EXCEPT
            !.pc = "done",
            !.res = validationErrorMiddleware(contract.error, @).res]
    /\ UNCHANGED <<requestVars, setup, pair, api, failure, csrf,
                   visit, parse>>

HandlerCalls(method, statusCode, data) ==
    /\ contract.pc = "handler"
    /\ LET c == [contract EXCEPT
                   !.call = [method |-> method, statusCode |-> statusCode,
                             data |-> data]]
       IN  contract' = IF method = "typedJson"
                       THEN typedJson(c, statusCode, data)
                       ELSE serialize(c, statusCode, data)
    /\ UNCHANGED <<requestVars, setup, pair, api, failure, csrf,
                   visit, parse>>

Catch ==
    /\ contract.pc = "thrown"
    /\ contract' = CatchResponseError(contract)
    /\ UNCHANGED <<requestVars, setup, pair, api, failure, csrf,
                   visit, parse>>

NextContract ==
    \/ Gate
    \/ ValidateRequest
    \/ RaisedToClassifier
    \/ \E method \in {"typedJson", "serialize"}, statusCode \in Statuses,
          data \in ResponseData :
          HandlerCalls(method, statusCode, data)
    \/ Catch

SpecContract == InitContract /\ [][NextContract]_vars

\* The request's content type is none of those the route allows.
ContentTypeRefused ==
    LET list == contract.config.request.contentType
        ct == contract.req.contentType
    IN  IF list = Undefined THEN ct # "application/json"
        ELSE \A k \in DOMAIN list : list[k] # ct

\* C21: on a route with a body schema, a request whose content type is not
\* allowed gets a ValidationError before the body is validated and before
\* the handler runs, and is answered with 400, whatever its body.
C21_ContentTypeGate ==
    (contract.pc \notin {"none", "gate"}
       /\ contract.config.request.body /\ ContentTypeRefused)
        => /\ contract.error.kind = "validation"
           /\ ~contract.validated
           /\ contract.call = NoCall
           /\ contract.pc \in {"raised", "done"}
           /\ contract.pc = "done"
                => /\ contract.res.statusCode = 400
                   /\ contract.res.by = "classifier"

C21_Witness ==
    /\ contract.pc = "done"
    /\ contract.config.request.contentType
         = <<"application/x-www-form-urlencoded">>
    /\ contract.req.contentType = "application/json"
    /\ contract.req.bodyValid
    /\ contract.res.statusCode = 400

Called(method, statusCode) ==
    /\ contract.pc \notin {"none", "handler"}
    /\ contract.call.method = method
    /\ contract.call.statusCode = statusCode

\* C22: for data that satisfies the response schema, serialize writes the
\* schema's members only, at the top, in the nested object and in every
\* array item, with the default in place of a missing member, and typedJson
\* writes the data as given.
C22_SerializeNormalises ==
    /\ (Called("serialize", 200) /\ contract.res.by = "serialize")
         => LET O == contract.call.data.f
                B == contract.res.body.value.f
            IN  /\ contract.res.statusCode = 200
                /\ DOMAIN B = {"id", "role", "owner", "tags"}
                /\ B.id = O.id
                /\ B.role = IF "role" \in DOMAIN O /\ O.role # Undef
                            THEN O.role ELSE Str("user")
                /\ DOMAIN B.owner.f = {"name"}
                /\ B.owner.f.name = O.owner.f.name
                /\ Len(B.tags.items) = Len(O.tags.items)
                /\ \A k \in DOMAIN B.tags.items :
                      /\ DOMAIN B.tags.items[k].f = {"label"}
                      /\ B.tags.items[k].f.label = O.tags.items[k].f.label
    /\ (Called("typedJson", 200) /\ contract.call.data.t = "object")
         => LET O == contract.call.data.f
                B == contract.res.body.value.f
            IN  /\ contract.res.statusCode = 200
                /\ DOMAIN B = {k \in DOMAIN O : O[k] # Undef}
                /\ \A k \in DOMAIN B : B[k] = O[k]

C22_Witness ==
    /\ Called("serialize", 200)
    /\ contract.res.by = "serialize"
    /\ DOMAIN contract.call.data.f = {"id", "extra", "owner", "tags"}
    /\ "extra" \in DOMAIN contract.call.data.f.owner.f
    /\ Len(contract.call.data.f.tags.items) = 2
    /\ "extra" \in DOMAIN contract.call.data.f.tags.items[2].f
    /\ contract.res.body.value # contract.call.data

\* The data has the members the 200 schema asks for, of the right types.
Conforms(data) ==
    /\ data.t = "object"
    /\ data.f.id.t = "string"
    /\ \A k \in DOMAIN data.f.tags.items :
          data.f.tags.items[k].f.label.t = "string"

\* C23: serialize given data that fails the status's schema throws a
\* ResponseValidationError, and when it is thrown the response has no
\* status set, no headers sent and no body.
C23_SerializeThrowsBeforeWriting ==
    /\ (Called("serialize", 200) /\ ~Conforms(contract.call.data))
         => /\ contract.error.kind = "response"
            /\ contract.res.by \in {"none", "catch"}
    /\ (contract.pc = "thrown" /\ contract.error.kind = "response")
         => contract.res = UnsentResponse

C23_Witness ==
    /\ contract.pc = "thrown"
    /\ contract.call.method = "serialize"
    /\ contract.call.statusCode = 200
    /\ contract.error.kind = "response"
    /\ contract.call.data.t = "object"
    /\ contract.call.data.f.id.t = "string"

\* C24: for a status without a declared schema, or a no-body status such
\* as 204, typedJson and serialize called without data both write that
\* status with an empty body and throw nothing.
C24_NoSchemaEmptyBody ==
    \A method \in {"typedJson", "serialize"}, statusCode \in Statuses :
       (Called(method, statusCode)
          /\ contract.call.data = Undef
          /\ (statusCode \in NoBodyStatus
                \/ contract.config.responses[statusCode].schema = Undef))
         => /\ contract.pc = "done"
            /\ contract.res.by = method
            /\ contract.res.statusCode = statusCode
            /\ contract.res.body = EmptyBody


\* ===================================================================
\* The CSRF stage of a route
\* ===================================================================

\* Latest second on the clock of the requests drawn here.
MaxClock == 3

\* A number as parseInt gives it: NaN, or n.
Time(n) == [nan |-> FALSE, n |-> n]
NaN == [nan |-> TRUE, n |-> 0]

\* A token is its text cut at the colons: a hex digest, digits (with or
\* without more characters behind them), or some other word.
Hex(d) == [kind |-> "hex", d |-> d, n |-> 0, junk |-> FALSE]
Digits(n, junk) == [kind |-> "digits", d |-> <<>>, n |-> n, junk |-> junk]
Word(w) == [kind |-> "word", d |-> <<w>>, n |-> 0, junk |-> FALSE]
EmptyString == <<>>

\* crypto.createHmac('sha1', csrfSecret).update(message).digest('hex'):
\* different inputs give different digests.
Hmac(csrfSecret, userId, timestamp) ==
    <<"hmac", csrfSecret, userId, timestamp>>

\* parseInt(tokenValue.split(':')[1], 10)
ParseStamp(tokenValue) ==
    IF Len(tokenValue) >= 2 /\ tokenValue[2].kind = "digits"
    THEN Time(tokenValue[2].n)
    ELSE NaN

\* buildToken(userId, timestamp, csrfSecret): `${digest}:${timestamp}`
buildToken(userId, timestamp, csrfSecret) ==
    <<Hex(Hmac(csrfSecret, userId, timestamp)),
      IF timestamp.nan THEN Word("NaN") ELSE Digits(timestamp.n, FALSE)>>

\* checkToken: some configured secret gives the very same text.
checkToken(c, userId, timestamp, tokenValue) ==
    \E k \in DOMAIN c.config.csrfSecrets :
       buildToken(userId, timestamp, c.config.csrfSecrets[k]) = tokenValue

\* A validate that never looks at the age of the token.
validateAnyAge(c, userId, tokenValue) ==
    IF ~tokenValue.defined \/ tokenValue.text = EmptyString
    THEN "CSRF token is missing"
    ELSE LET timestamp == ParseStamp(tokenValue.text)
         IN  IF ~checkToken(c, userId, timestamp, tokenValue.text)
             THEN "CSRF token is not valid"
             ELSE "ok"

\* validate(userId, tokenValue): "ok", or the message of the error thrown.
validate(c, userId, tokenValue) ==
    IF ~tokenValue.defined \/ tokenValue.text = EmptyString
    THEN "CSRF token is missing"
    ELSE LET timestamp == ParseStamp(tokenValue.text)
         IN  IF c.config.lifetime > 0 /\ ~timestamp.nan
                /\ timestamp.n + c.config.lifetime <= c.now
             THEN "CSRF token is out of date"
             ELSE IF ~checkToken(c, userId, timestamp, tokenValue.text)
                  THEN "CSRF token is not valid"
                  ELSE "ok"

NoToken == [defined |-> FALSE, text |-> EmptyString]
\* headerValue && Array.isArray(headerValue) ? headerValue[0] : headerValue
TokenValue(headerValue) ==
    IF headerValue.kind = "undefined" \/ headerValue.values = <<>>
    THEN NoToken
    ELSE [defined |-> TRUE, text |-> headerValue.values[1]]

CallNext(c) == [c EXCEPT !.pc = "next", !.nextCalls = @ + 1]

\* A stage that issues the token before it looks for the user.
csrfMiddlewareTokenFirst(c) ==
    LET userId == c.req.userId
        csrfToken == buildToken(userId, Time(c.now), c.config.csrfSecrets[1])
        c1 == [c EXCEPT !.issued = <<csrfToken>>]
        shouldCheckToken ==
            /\ ~c.route.disableCsrf
            /\ c.req.method \in c.config.methods
            /\ ~c.locals.oauth
        outcome == validate(c, userId, TokenValue(c.req.header))
    IN  IF userId = ""
        THEN IF c.route.authPolicy = "required"
             THEN [c1 EXCEPT
                     !.pc = "thrown",
                     !.error = "CSRF protection is enabled but user ID is not found"]
             ELSE CallNext(c1)
        ELSE IF shouldCheckToken
             THEN IF outcome = "ok"
                  THEN CallNext([c1 EXCEPT !.checked = TRUE])
                  ELSE [c1 EXCEPT
                          !.pc = "answered", !.checked = TRUE,
                          !.error = outcome, !.logged = <<outcome>>,
                          !.res = sendError(@, 419,
                                    [kind |-> "json", error |-> outcome],
                                    "csrf")]
             ELSE CallNext(c1)

\* csrfMiddleware(req, res, next)
csrfMiddleware(c) ==
    LET userId == c.req.userId
        csrfToken == buildToken(userId, Time(c.now), c.config.csrfSecrets[1])
        c1 == [c EXCEPT !.issued = <<csrfToken>>]
        shouldCheckToken ==
            /\ ~c.route.disableCsrf
            /\ c.req.method \in c.config.methods
            /\ ~c.locals.oauth
        outcome == validate(c, userId, TokenValue(c.req.header))
    IN  IF userId = ""
        THEN IF c.route.authPolicy = "required"
             THEN [c EXCEPT
                     !.pc = "thrown",
                     !.error = "CSRF protection is enabled but user ID is not found"]
             ELSE CallNext(c)
        ELSE IF shouldCheckToken
             THEN IF outcome = "ok"
                  THEN CallNext([c1 EXCEPT !.checked = TRUE])
                  ELSE [c1 EXCEPT
                          !.pc = "answered", !.checked = TRUE,
                          !.error = outcome, !.logged = <<outcome>>,
                          !.res = sendError(@, 419,
                                    [kind |-> "json", error |-> outcome],
                                    "csrf")]
             ELSE CallNext(c1)

Users == {"u1", "u2"}
Secrets == {"s1", "s2"}
\* appCsrfSecret: one secret, or a list.
SecretLists == {<<"s1">>, <<"s1", "s2">>}
\* appCsrfLifetime in seconds; 0 switches the age test off.
Lifetimes == {0, 2}
\* appCsrfMethods: the default list, or a configured one.
MethodLists == {{"POST", "PUT", "DELETE", "PATCH"}, {"POST", "GET"}}

\* Tokens a client can present: issued by this or another application for
\* some user at some second, or not a token at all.
PresentedTokens ==
    { buildToken(u, Time(t), s) :
        u \in Users, t \in 0..MaxClock, s \in Secrets \cup {"s0"} }
    \cup { <<Hex(Hmac("s1", "u1", Time(t))), Digits(t, TRUE)>> :
             t \in 0..MaxClock }
    \cup { buildToken("u1", Time(t), "s1") \o <<Word("x")>> :
             t \in 0..MaxClock }
    \cup {<<Word("invalid-token")>>, EmptyString}

\* req.headers[headerName]: undefined, a string, or an array of strings.
HeaderValues ==
    {[kind |-> "undefined", values |-> <<>>]}
    \cup {[kind |-> "string", values |-> <<t>>] : t \in PresentedTokens}
    \cup {[kind |-> "array", values |-> q] :
            q \in {<<>>,
                   <<buildToken("u1", Time(MaxClock), "s1"),
                     <<Word("invalid-token")>> >>,
                   << <<Word("invalid-token")>>,
                      buildToken("u1", Time(MaxClock), "s1")>>}}

NewCsrf(config, route, request, oauth, now) ==
    [pc |-> "stage", config |-> config, route |-> route, req |-> request,
     locals |-> [oauth |-> oauth], now |-> now, res |-> UnsentResponse,
     issued |-> <<>>, checked |-> FALSE, nextCalls |-> 0, error |-> "",
     logged |-> <<>>]

InitCsrf ==
    /\ NewRequest(NumUserMw)
    /\ setup = NoSetup /\ pair = NoPair /\ api = NoApi
    /\ failure = NoFailure /\ contract = NoContract /\ Aside
    /\ \E secrets \in SecretLists, lifetime \in Lifetimes,
          methods \in MethodLists,
          authPolicy \in AuthPolicy \ {"disabled"},
          disableCsrf \in BOOLEAN, method \in {"GET", "POST"},
          userId \in Users \cup {""}, header \in HeaderValues,
          oauth \in BOOLEAN, now \in 0..MaxClock :
          csrf = NewCsrf([csrfSecrets |-> secrets, lifetime |-> lifetime,
                          methods |-> methods],
                         [authPolicy |-> authPolicy,
                          disableCsrf |-> disableCsrf],
                         [method |-> method, userId |-> userId,
                          header |-> header],
                         oauth, now)

CsrfStage ==
    /\ csrf.pc = "stage"
    /\ csrf' = csrfMiddleware(csrf)
    /\ UNCHANGED <<requestVars, setup, pair, api, failure, contract,
                 visit, parse>>

\* The error thrown by the stage is passed to the error handlers and
\* answered by finalRequestHandler.
CsrfErrorHandled ==
    /\ csrf.pc = "thrown"
    /\ csrf' =
         [csrf EXCEPT
            !.pc = "done",
            !.logged = <<csrf.error>>,
            !.res = finalRequestHandler(
                      NewFailure([appFinalErrorHandler |-> FALSE],
                                 OtherError(csrf.error, 0), FALSE,
                                 NoZodError)).res]
    /\ UNCHANGED <<requestVars, setup, pair, api, failure, contract,
                 visit, parse>>

NextCsrf ==
    \/ CsrfStage
    \/ CsrfErrorHandled

SpecCsrf == InitCsrf /\ [][NextCsrf]_vars

StagePassed == csrf.pc \notin {"none", "stage"}
Authenticated == csrf.req.userId # ""
ListedMethod == csrf.req.method \in csrf.config.methods

\* The header carries, alone or as its first value, a token built for this
\* user at some second with one of the configured secrets, and the token is
\* younger than the lifetime when there is one.
HeaderValidForUser ==
    /\ csrf.req.header.kind # "undefined"
    /\ csrf.req.header.values # <<>>
    /\ \E k \in DOMAIN csrf.config.csrfSecrets, t \in 0..MaxClock :
          /\ csrf.req.header.values[1] =
               <<Hex(Hmac(csrf.config.csrfSecrets[k], csrf.req.userId,
                          Time(t))),
                 Digits(t, FALSE)>>
          /\ csrf.config.lifetime = 0 \/ csrf.now < t + csrf.config.lifetime

Proceeds == csrf.pc = "next" /\ csrf.nextCalls = 1
Refused ==
    /\ csrf.pc = "answered"
    /\ csrf.res.statusCode = 419
    /\ csrf.nextCalls = 0

C30_NoUserId ==
    (StagePassed /\ ~Authenticated)
        => IF csrf.route.authPolicy = "required"
           THEN /\ csrf.pc \in {"thrown", "done"}
                /\ csrf.nextCalls = 0
                /\ csrf.issued = <<>>
                /\ csrf.pc = "done" => /\ csrf.res.statusCode = 500
                                       /\ csrf.res.by = "default"
           ELSE /\ Proceeds
                /\ csrf.issued = <<>>
                /\ ~csrf.checked
                /\ csrf.res = UnsentResponse

C30_Witness ==
    /\ csrf.pc = "done"
    /\ ~Authenticated
    /\ csrf.route.authPolicy = "required"
    /\ csrf.req.method = "POST"
    /\ csrf.res.statusCode = 500

\* ================================================ a request over the entries
\* One request from the base middleware over the entries of the routes object
\* that its path matches, in the order of their registration, to the 'finish'
\* event of its response and the end of its root context.

\* A name is the sequence of its pieces; undefined and '' are the empty one.
UNNAMED_CONTROLLER == <<"unnamedController">>
NoName == << >>
\* a || b on names
NameOr(a, b) == IF a # NoName THEN a ELSE b

\* handlerName || fn.name || UNNAMED_CONTROLLER, in setupRoutes and in
\* wrapRouteHandler alike.
LocalName(handlerName, fnName) ==
    NameOr(handlerName, NameOr(fnName, UNNAMED_CONTROLLER))

\* A wrapper that appends its name in every case.
MergedNameAppends(previous, local) ==
    previous \o <<"(">> \o local \o <<")">>

\* req.routeInfo.handlerName as the handler wrapper leaves it.
MergedName(previous, local) ==
    IF previous # local
    THEN IF previous = UNNAMED_CONTROLLER
         THEN local
         ELSE previous \o <<"(">> \o local \o <<")">>
    ELSE previous

\* Object.assign(req.routeInfo, restRouteInfo, {handlerName, ...}): a key the
\* entry does not give keeps the value it had.
AssignRouteInfo(routeInfo, entry) ==
    [handlerName |-> LocalName(entry.handlerName, entry.fnName),
     disableSelfStats |->
         IF entry.disableSelfStats # "undefined"
         THEN entry.disableSelfStats
         ELSE routeInfo.disableSelfStats]

\* The 'finish' listener of the base middleware.
BaseOnFinish(v) ==
    [v EXCEPT !.logs = Append(@, IF v.res.statusCode \div 100 = 5
                                 THEN "Request failed"
                                 ELSE "Request completed")]

\* The 'finish' listener of routeInfoMiddleware: the self-stats event, then
\* setImmediate(() => req.originalContext.end()).
RouteOnFinish(v) ==
    LET event == [action |-> NameOr(v.req.routeInfo.handlerName,
                                    UNNAMED_CONTROLLER),
                  responseStatus |-> v.res.statusCode,
                  requestId |-> v.requestId,
                  requestMethod |-> v.req.method]
        v1 == IF /\ v.config.appTelemetryChEnableSelfStats
                 /\ v.req.routeInfo.disableSelfStats # "true"
              THEN [v EXCEPT !.stats = Append(@, event)]
              ELSE v
    IN  [v1 EXCEPT !.immediates = @ + 1]

\* res.emit('finish'): the listeners in the order of their registration.
RECURSIVE EmitFinish(_, _)
EmitFinish(v, k) ==
    IF k > Len(v.listeners) THEN v
    ELSE EmitFinish(IF v.listeners[k] = "base" THEN BaseOnFinish(v)
                    ELSE RouteOnFinish(v), k + 1)

\* ------------------------------------------------------------------ inputs
GivenNames == {NoName, <<"a">>, <<"b">>}
FunctionNames == {NoName, <<"a">>}
Flags == {"undefined", "true", "false"}
\* The route a mount's sub-router has for the request, wrapped with the
\* wrapRouteHandler the mount was given, or none.
NoSub == [handlerName |-> NoName, fnName |-> NoName, handles |-> FALSE]
SubRoutes ==
    {NoSub} \cup [handlerName : GivenNames, fnName : FunctionNames,
                  handles : {TRUE}]
RouteEntries ==
    [method : {"get"}, handlerName : GivenNames, fnName : FunctionNames,
     disableSelfStats : Flags, sub : {NoSub}]
MountEntries ==
    [method : {"mount"}, handlerName : GivenNames, fnName : FunctionNames,
     disableSelfStats : Flags, sub : SubRoutes]
\* The entries the path of the request matches: a route, a mount, or a mount
\* registered before a route.
Tables ==
    {<<r>> : r \in RouteEntries} \cup {<<m>> : m \in MountEntries}
        \cup {<<m, r>> : m \in {e \in MountEntries :
                                     e.fnName = NoName /\ e.sub = NoSub},
                          r \in {e \in RouteEntries : e.fnName = NoName}}

NewVisit(config, entries, method, header) ==
    [pc |-> "new", config |-> config, entries |-> entries, idx |-> 1,
     req |-> [method |-> method, header |-> header,
              routeInfo |-> [handlerName |-> NoName,
                             disableSelfStats |-> "undefined"]],
     requestId |-> "",
     res |-> [statusCode |-> 200, headersSent |-> FALSE, finished |-> FALSE],
     listeners |-> << >>, logs |-> << >>, stats |-> << >>,
     immediates |-> 0, ends |-> 0, matched |-> 0,
     wrapper |-> [ran |-> FALSE, written |-> NoName, previous |-> NoName,
                  local |-> NoName]]

InitServe ==
    /\ NewRequest(NumUserMw)
    /\ setup = NoSetup /\ pair = NoPair /\ api = NoApi
    /\ failure = NoFailure /\ contract = NoContract /\ csrf = NoCsrf
    /\ parse = NoParse
    /\ \E selfStats \in BOOLEAN, entries \in Tables,
          method \in {"GET", "POST"}, header \in {"", "r1"} :
          visit = NewVisit([appTelemetryChEnableSelfStats |-> selfStats],
                           entries, method, header)

\* ------------------------------------------------------------------ actions
\* The base middleware: the request id of the header or a generated one, an
\* empty req.routeInfo, the root context, the 'finish' listener, next().
ServeBase ==
    /\ visit.pc = "new"
    /\ visit' = [visit EXCEPT
          !.pc = "routing",
          !.requestId = IF visit.req.header # "" THEN visit.req.header
                        ELSE "uuid",
          !.listeners = Append(@, "base")]
    /\ UNCHANGED <<requestVars, setup, pair, api, failure, contract, csrf,
                   parse>>

\* routeInfoMiddleware of the entry the request has reached.
ServeRouteInfo ==
    /\ visit.pc = "routing"
    /\ visit.idx <= Len(visit.entries)
    /\ LET entry == visit.entries[visit.idx]
           info == AssignRouteInfo(visit.req.routeInfo, entry)
       IN  visit' = [visit EXCEPT
             !.pc = "entered",
             !.req.routeInfo = info,
             !.wrapper.written = info.handlerName,
             !.listeners = Append(@, "route")]
    /\ UNCHANGED <<requestVars, setup, pair, api, failure, contract, csrf,
                   parse>>

\* The handler made by wrapRouteHandler: of the route, with the handlerName
\* of setupRoutes, or of the sub-router's route, with the name it was given.
\* It names req.routeInfo.handlerName and the handler answers.
ServeHandler(statusCode) ==
    /\ visit.pc = "entered"
    /\ LET entry == visit.entries[visit.idx]
           mount == entry.method = "mount"
           local == IF mount
                    THEN LocalName(entry.sub.handlerName, entry.sub.fnName)
                    ELSE LocalName(LocalName(entry.handlerName, entry.fnName),
                                   entry.fnName)
           previous == visit.req.routeInfo.handlerName
       IN  /\ mount => entry.sub.handles
           /\ visit' = [visit EXCEPT
                 !.pc = "answered",
                 !.matched = visit.idx,
                 !.req.routeInfo.handlerName = MergedName(previous, local),
                 !.wrapper.ran = TRUE,
                 !.wrapper.previous = previous,
                 !.wrapper.local = local,
                 !.res.statusCode = statusCode,
                 !.res.headersSent = TRUE]
    /\ UNCHANGED <<requestVars, setup, pair, api, failure, contract, csrf,
                   parse>>

\* The sub-router of a mount has no route for the request and calls next.
ServeFallsThrough ==
    /\ visit.pc = "entered"
    /\ visit.entries[visit.idx].method = "mount"
    /\ ~visit.entries[visit.idx].sub.handles
    /\ visit' = [visit EXCEPT !.pc = "routing", !.idx = @ + 1]
    /\ UNCHANGED <<requestVars, setup, pair, api, failure, contract, csrf,
                   parse>>

\* No entry is left: the app answers 404.
ServeNotFound ==
    /\ visit.pc = "routing"
    /\ visit.idx > Len(visit.entries)
    /\ visit' = [visit EXCEPT !.pc = "answered",
                              !.res.statusCode = 404,
                              !.res.headersSent = TRUE]
    /\ UNCHANGED <<requestVars, setup, pair, api, failure, contract, csrf,
                   parse>>

\* The response has been written out: 'finish' is emitted.
ServeFinish ==
    /\ visit.pc = "answered"
    /\ visit' = [EmitFinish(visit, 1) EXCEPT !.pc = "finished",
                                             !.res.finished = TRUE]
    /\ UNCHANGED <<requestVars, setup, pair, api, failure, contract, csrf,
                   parse>>

\* One setImmediate callback: req.originalContext.end().
ServeImmediate ==
    /\ visit.pc = "finished"
    /\ visit.immediates > 0
    /\ visit' = [visit EXCEPT !.immediates = @ - 1, !.ends = @ + 1]
    /\ UNCHANGED <<requestVars, setup, pair, api, failure, contract, csrf,
                   parse>>

NextServe ==
    \/ ServeBase
    \/ ServeRouteInfo
    \/ \E statusCode \in {200, 500} : ServeHandler(statusCode)
    \/ ServeFallsThrough
    \/ ServeNotFound
    \/ ServeFinish
    \/ ServeImmediate

SpecServe == InitServe /\ [][NextServe]_vars

\* ---------------------------------------------------------------- properties
\* The entry whose handler answered the request.
MatchedEntry == visit.entries[visit.matched]
Answered == visit.pc # "none" /\ visit.matched # 0

\* C32: with self-stats enabled, the finish of the response of a matched
\* route emits exactly one self-stats event, with the handler name of
\* req.routeInfo, the status of the response, the method and the id of the
\* request, unless the route sets disableSelfStats, and then none.
C32_SelfStatsEvent ==
    (Answered /\ visit.res.finished
        /\ visit.config.appTelemetryChEnableSelfStats) =>
        IF MatchedEntry.disableSelfStats = "true"
        THEN visit.stats = << >>
        ELSE visit.stats =
               <<[action |-> visit.req.routeInfo.handlerName,
                  responseStatus |-> visit.res.statusCode,
                  requestId |-> IF visit.req.header # ""
                                THEN visit.req.header ELSE "uuid",
                  requestMethod |-> visit.req.method]>>

\* C34: for one request the end of the root context is requested at most
\* once and at most one self-stats event is emitted, also when the request
\* passed the stages of a mount whose sub-router did not handle it before it
\* matched a route.
C34_OneEndOneEvent ==
    visit.pc # "none" => (visit.ends <= 1 /\ Len(visit.stats) <= 1)

\* C39: the handler wrapper, run with local name N, leaves
\* req.routeInfo.handlerName as it was when it was N already, sets it to N
\* when it was the unnamed-controller placeholder, and otherwise appends N in
\* parentheses; for a route that is no mount the name the route-info stage
\* wrote is left as it was.
C39_HandlerName ==
    (visit.pc # "none" /\ visit.wrapper.ran) =>
        LET P == visit.wrapper.previous
            N == visit.wrapper.local
            name == visit.req.routeInfo.handlerName
        IN  /\ P = N => name = P
            /\ (P # N /\ P = <<"unnamedController">>) => name = N
            /\ (P # N /\ P # <<"unnamedController">>) =>
                  /\ Len(name) = Len(P) + Len(N) + 2
                  /\ SubSeq(name, 1, Len(P)) = P
                  /\ name[Len(P) + 1] = "("
                  /\ SubSeq(name, Len(P) + 2, Len(P) + Len(N) + 1) = N
                  /\ name[Len(name)] = ")"
            /\ MatchedEntry.method # "mount" =>
                  /\ name = visit.wrapper.written
                  /\ name # NoName

C39_Witness ==
    /\ visit.pc = "finished"
    /\ visit.wrapper.ran
    /\ MatchedEntry.method = "mount"
    /\ visit.wrapper.previous = <<"a">>
    /\ visit.wrapper.local = <<"b">>
    /\ visit.req.routeInfo.handlerName = <<"a", "(", "b", ")">>

\* ================================================================== parsers
\* setupParsers: the cookie parser, the JSON body parser with its error
\* handler, the urlencoded and the raw body parser, in this order before the
\* routes, and one request passing them.

\* The errors a body parser hands to next: the SyntaxError of a body that
\* does not parse (statusCode 400, with the body), and the HTTP errors of a
\* body that is too large, of an unsupported charset or encoding and of an
\* aborted request, which are no SyntaxError.
NoParserError == [name |-> "none", statusCode |-> 0, body |-> FALSE]
EntityParseFailed == [name |-> "SyntaxError", statusCode |-> 400, body |-> TRUE]
EntityTooLarge ==
    [name |-> "PayloadTooLargeError", statusCode |-> 413, body |-> FALSE]
UnsupportedCharset ==
    [name |-> "UnsupportedMediaTypeError", statusCode |-> 415, body |-> FALSE]
RequestAborted ==
    [name |-> "BadRequestError", statusCode |-> 400, body |-> FALSE]
ParserErrors(layer) ==
    CASE layer = "json" ->
           {EntityParseFailed, EntityTooLarge, UnsupportedCharset,
            RequestAborted}
      [] layer = "urlencoded" ->
           {EntityTooLarge, UnsupportedCharset, RequestAborted}
      [] layer = "raw" -> {EntityTooLarge, RequestAborted}
      [] OTHER -> {}

\* The layers setupParsers registers, in the order of expressApp.use.
ParserLayers(config) ==
    <<"cookie">>
    \o (IF ~config.expressDisableBodyParserJSON
        THEN <<"json", "jsonParsingErrorHandler">> ELSE << >>)
    \o (IF ~config.expressDisableBodyParserURLEncoded
        THEN <<"urlencoded">> ELSE << >>)
    \o (IF config.expressBodyParserRawConfig THEN <<"raw">> ELSE << >>)

\* jsonParsingErrorHandler(error, _, res, __): the response it leaves. It
\* has no other statement, and it never calls the next it is given.
jsonParsingErrorHandler(error, r) ==
    IF error.name = "SyntaxError" /\ error.statusCode = 400 /\ error.body
    THEN [headersSent |-> TRUE, statusCode |-> 400,
          body |-> "Invalid JSON supplied"]
    ELSE r

NewParse(config) ==
    [pc |-> "parsing", config |-> config, layers |-> ParserLayers(config),
     at |-> 1, error |-> NoParserError, raisedBy |-> "none",
     res |-> [headersSent |-> FALSE, statusCode |-> 200, body |-> ""],
     handledBy |-> "none"]

InitParsers ==
    /\ NewRequest(NumUserMw)
    /\ setup = NoSetup /\ pair = NoPair /\ api = NoApi
    /\ failure = NoFailure /\ contract = NoContract /\ csrf = NoCsrf
    /\ visit = NoVisit
    /\ \E noJson \in BOOLEAN, noUrlEncoded \in BOOLEAN, raw \in BOOLEAN :
          parse = NewParse([expressDisableBodyParserJSON |-> noJson,
                            expressDisableBodyParserURLEncoded |->
                                noUrlEncoded,
                            expressBodyParserRawConfig |-> raw])

\* The parser the request has reached reads it and calls next().
ParserPasses ==
    /\ parse.pc = "parsing"
    /\ parse.at <= Len(parse.layers)
    /\ parse' = [parse EXCEPT !.at = @ + 1]
    /\ UNCHANGED <<requestVars, setup, pair, api, failure, contract, csrf,
                   visit>>

\* The body parser the request has reached calls next(error).
ParserFails(error) ==
    /\ parse.pc = "parsing"
    /\ parse.at <= Len(parse.layers)
    /\ error \in ParserErrors(parse.layers[parse.at])
    /\ parse' = [parse EXCEPT !.pc = "failing", !.at = @ + 1,
                              !.error = error,
                              !.raisedBy = parse.layers[parse.at]]
    /\ UNCHANGED <<requestVars, setup, pair, api, failure, contract, csrf,
                   visit>>

\* With an error the router skips the layers that are no error handlers.
ParserSkipped ==
    /\ parse.pc = "failing"
    /\ parse.at <= Len(parse.layers)
    /\ parse.layers[parse.at] # "jsonParsingErrorHandler"
    /\ parse' = [parse EXCEPT !.at = @ + 1]
    /\ UNCHANGED <<requestVars, setup, pair, api, failure, contract, csrf,
                   visit>>

\* The error reaches jsonParsingErrorHandler, the last to see it: either it
\* answers, or it returns with nothing done.
JsonParsingErrorHandler ==
    /\ parse.pc = "failing"
    /\ parse.at <= Len(parse.layers)
    /\ parse.layers[parse.at] = "jsonParsingErrorHandler"
    /\ parse' = [parse EXCEPT
          !.pc = "returned",
          !.handledBy = "jsonParsingErrorHandler",
          !.res = jsonParsingErrorHandler(parse.error, @)]
    /\ UNCHANGED <<requestVars, setup, pair, api, failure, contract, csrf,
                   visit>>

\* Past the parsers: without an error the request goes on to the routes,
\* with one the error goes on to the error handlers behind the routes.
ParsersLeft ==
    /\ parse.pc \in {"parsing", "failing"}
    /\ parse.at > Len(parse.layers)
    /\ parse' = [parse EXCEPT
          !.pc = IF parse.pc = "failing" THEN "forwarded" ELSE "routes"]
    /\ UNCHANGED <<requestVars, setup, pair, api, failure, contract, csrf,
                   visit>>

NextParsers ==
    \/ ParserPasses
    \/ \E error \in {EntityParseFailed, EntityTooLarge, UnsupportedCharset,
                      RequestAborted} : ParserFails(error)
    \/ ParserSkipped
    \/ JsonParsingErrorHandler
    \/ ParsersLeft

SpecParsers == InitParsers /\ [][NextParsers]_vars

\* C37: when an error was raised by a parser and the parsers' layers have
\* nothing left to do for the request, a response has been sent or the error
\* has been forwarded to the error handlers that follow.
C37_ParserErrorSettled ==
    (parse.pc \in {"returned", "forwarded"}
        /\ parse.error # NoParserError) =>
        (parse.res.headersSent \/ parse.pc = "forwarded")
====
